---- MODULE Spec2Model ----
(***************************************************************************)
(* DocSync: the documentation parse pipeline of services/gemini.ts and the *)
(* document / translation caches driven by the handlers of App.tsx.        *)
(*                                                                         *)
(* Text is a sequence of tokens.  A token is one character ("{", "\"",     *)
(* " ", ...) or a run of letters that contains none of the characters the  *)
(* code looks for (a word such as "summary" or "x").                       *)
(***************************************************************************)
EXTENDS Integers, Sequences, FiniteSets, Bags, TLC

(***************************************************************************)
(* Bounds of the model.                                                    *)
(***************************************************************************)
\* longest raw text enumerated token by token
MaxLen == 4
\* most requests (generation, verification, translation) in flight at once
MaxInflight == 2

(***************************************************************************)
(* Characters                                                              *)
(***************************************************************************)
LB == "{"
RB == "}"
LK == "["
RK == "]"
CM == ","
CL == ":"
QT == "\""
BS == "\\"
SP == " "
NL == "<LF>"
TAB == "<TAB>"
FF == "<FF>"

Ws == {SP, NL, TAB, FF}
Digits == {"0", "1"}
Literals == {"true", "false", "null"}

\* the JSON escapes \" \\ \/ \b \f \n \r \t seen on tokens: the escape takes the
\* first character of the token after the backslash
EscapeOf(tok) ==
    CASE tok = QT -> <<QT>>
      [] tok = BS -> <<BS>>
      [] tok = "n" -> <<NL>>
      [] tok = "null" -> <<NL, "ull">>
      [] tok = "title" -> <<TAB, "itle">>
      [] tok = "true" -> <<TAB, "rue">>
      [] tok = "false" -> <<FF, "alse">>
      [] tok = "filePath" -> <<FF, "ilePath">>
      [] OTHER -> <<>>

(***************************************************************************)
(* JavaScript values.  Every value is a record of one shape: t the type,   *)
(* s the characters of a string (the digits of a number), kids the         *)
(* elements of an array or the [k, v] properties of an object in insertion *)
(* order.                                                                  *)
(***************************************************************************)
Undef == [t |-> "undefined", s |-> <<>>, kids |-> <<>>]
Null == [t |-> "null", s |-> <<>>, kids |-> <<>>]
Bool(b) == [t |-> IF b THEN "true" ELSE "false", s |-> <<>>, kids |-> <<>>]
Num(digits) == [t |-> "num", s |-> digits, kids |-> <<>>]
Str(chars) == [t |-> "str", s |-> chars, kids |-> <<>>]
Arr(elems) == [t |-> "arr", s |-> <<>>, kids |-> elems]
Obj(props) == [t |-> "obj", s |-> <<>>, kids |-> props]

\* ToBoolean
Truthy(v) ==
    CASE v.t \in {"undefined", "null", "false"} -> FALSE
      [] v.t = "str" -> v.s # <<>>
      [] v.t = "num" -> \E i \in DOMAIN v.s : v.s[i] # "0"
      [] OTHER -> TRUE

\* v.k for a property name k (a word): undefined unless v is an object that has it
Prop(v, k) ==
    IF v.t = "obj" /\ \E i \in DOMAIN v.kids : v.kids[i].k = <<k>>
    THEN v.kids[CHOOSE i \in DOMAIN v.kids : v.kids[i].k = <<k>>].v
    ELSE Undef

\* {...o, k: v}: k keeps its place when o has it, else it is added last
SetProp(props, k, v) ==
    IF \E i \in DOMAIN props : props[i].k = k
    THEN [i \in DOMAIN props |-> IF props[i].k = k THEN [k |-> k, v |-> v] ELSE props[i]]
    ELSE Append(props, [k |-> k, v |-> v])

(***************************************************************************)
(* JSON.parse                                                              *)
(***************************************************************************)
Fail == [ok |-> FALSE, v |-> Undef, i |-> 0]
Got(v, i) == [ok |-> TRUE, v |-> v, i |-> i]

At(s, i) == IF i \in DOMAIN s THEN s[i] ELSE "<EOF>"

RECURSIVE SkipWs(_, _)
SkipWs(s, i) == IF At(s, i) \in Ws THEN SkipWs(s, i + 1) ELSE i

\* the characters of a string literal after its opening quote
RECURSIVE JsonChars(_, _, _)
JsonChars(s, i, acc) ==
    CASE i > Len(s) -> Fail
      [] At(s, i) = QT -> Got(Str(acc), i + 1)
      [] At(s, i) \in {NL, TAB, FF} -> Fail
      [] At(s, i) = BS ->
            IF EscapeOf(At(s, i + 1)) # <<>>
            THEN JsonChars(s, i + 2, acc \o EscapeOf(At(s, i + 1)))
            ELSE Fail
      [] OTHER -> JsonChars(s, i + 1, Append(acc, s[i]))

RECURSIVE JsonDigits(_, _, _)
JsonDigits(s, i, acc) ==
    IF At(s, i) \in Digits THEN JsonDigits(s, i + 1, Append(acc, s[i])) ELSE Got(Num(acc), i)

RECURSIVE JsonValue(_, _)
RECURSIVE JsonElements(_, _, _)
RECURSIVE JsonMembers(_, _, _)

JsonElements(s, i, acc) ==
    LET e == JsonValue(s, i)
        j == SkipWs(s, e.i)
    IN  CASE ~e.ok -> Fail
          [] At(s, j) = CM -> JsonElements(s, SkipWs(s, j + 1), Append(acc, e.v))
          [] At(s, j) = RK -> Got(Arr(Append(acc, e.v)), j + 1)
          [] OTHER -> Fail

JsonMembers(s, i, acc) ==
    LET key == IF At(s, i) = QT THEN JsonChars(s, i + 1, <<>>) ELSE Fail
        c == SkipWs(s, key.i)
        e == IF key.ok /\ At(s, c) = CL THEN JsonValue(s, SkipWs(s, c + 1)) ELSE Fail
        j == SkipWs(s, e.i)
    IN  CASE ~e.ok -> Fail
          [] At(s, j) = CM -> JsonMembers(s, SkipWs(s, j + 1), SetProp(acc, key.v.s, e.v))
          [] At(s, j) = RB -> Got(Obj(SetProp(acc, key.v.s, e.v)), j + 1)
          [] OTHER -> Fail

JsonValue(s, i) ==
    CASE At(s, i) = LB ->
            IF At(s, SkipWs(s, i + 1)) = RB
            THEN Got(Obj(<<>>), SkipWs(s, i + 1) + 1)
            ELSE JsonMembers(s, SkipWs(s, i + 1), <<>>)
      [] At(s, i) = LK ->
            IF At(s, SkipWs(s, i + 1)) = RK
            THEN Got(Arr(<<>>), SkipWs(s, i + 1) + 1)
            ELSE JsonElements(s, SkipWs(s, i + 1), <<>>)
      [] At(s, i) = QT -> JsonChars(s, i + 1, <<>>)
      [] At(s, i) = "0" -> Got(Num(<<"0">>), i + 1)
      [] At(s, i) = "1" -> JsonDigits(s, i, <<>>)
      [] At(s, i) = "true" -> Got(Bool(TRUE), i + 1)
      [] At(s, i) = "false" -> Got(Bool(FALSE), i + 1)
      [] At(s, i) = "null" -> Got(Null, i + 1)
      [] OTHER -> Fail

\* JSON.parse(s): ok is FALSE when it throws SyntaxError
JsonParse(s) ==
    LET r == JsonValue(s, SkipWs(s, 1))
    IN  IF r.ok /\ SkipWs(s, r.i) = Len(s) + 1 THEN r ELSE Fail

(***************************************************************************)
(* String helpers                                                          *)
(***************************************************************************)
RECURSIVE TrimStart(_)
TrimStart(s) == IF s # <<>> /\ Head(s) \in Ws THEN TrimStart(Tail(s)) ELSE s

RECURSIVE TrimEnd(_)
TrimEnd(s) ==
    IF s # <<>> /\ s[Len(s)] \in Ws THEN TrimEnd(SubSeq(s, 1, Len(s) - 1)) ELSE s

\* String.prototype.trim
Trim(s) == TrimEnd(TrimStart(s))

\* how many times character c occurs: (s.match(/c/g) || []).length
Count(s, c) == Cardinality({i \in DOMAIN s : s[i] = c})

\* s with every token of the set cs removed
RECURSIVE Without(_, _)
Without(s, cs) ==
    IF s = <<>> THEN <<>>
    ELSE IF Head(s) \in cs THEN Without(Tail(s), cs)
    ELSE <<Head(s)>> \o Without(Tail(s), cs)

\* s.replace(/ab/g, r) for two adjacent tokens a, b
RECURSIVE ReplacePair(_, _, _, _)
ReplacePair(s, a, b, r) ==
    IF s = <<>> THEN <<>>
    ELSE IF Len(s) >= 2 /\ s[1] = a /\ s[2] = b
    THEN r \o ReplacePair(SubSeq(s, 3, Len(s)), a, b, r)
    ELSE <<Head(s)>> \o ReplacePair(Tail(s), a, b, r)

\* a run of n letters z, one token
Run(n) == "z*" \o ToString(n)
RunLens == {1, 2, 999, 1000, 1001}
IsRun(tok) == \E n \in RunLens : tok = Run(n)

\* the number of characters of a token
CharLen(tok) ==
    CASE IsRun(tok) -> CHOOSE n \in RunLens : tok = Run(n)
      [] tok = "summary" -> 7
      [] tok = "sections" -> 8
      [] tok = "title" -> 5
      [] tok = "content" -> 7
      [] tok = "codeExample" -> 11
      [] tok = "filePath" -> 8
      [] tok = "status" -> 6
      [] tok = "logs" -> 4
      [] tok = "fixedCode" -> 9
      [] tok = "SUCCESS" -> 7
      [] tok = "FAILED" -> 6
      [] tok = "true" -> 4
      [] tok = "false" -> 5
      [] tok = "null" -> 4
      [] tok = "..." -> 3
      [] OTHER -> 1

RECURSIVE StrLen(_)
StrLen(s) == IF s = <<>> THEN 0 ELSE CharLen(Head(s)) + StrLen(Tail(s))

\* the first k characters of a token longer than k
CutTok(tok, k) ==
    IF IsRun(tok) THEN Run(k) ELSE "<" \o ToString(k) \o " of " \o tok \o ">"

\* s.slice(0, n)
RECURSIVE SliceChars(_, _)
SliceChars(s, n) ==
    CASE s = <<>> \/ n <= 0 -> <<>>
      [] CharLen(Head(s)) <= n -> <<Head(s)>> \o SliceChars(Tail(s), n - CharLen(Head(s)))
      [] OTHER -> <<CutTok(Head(s), n)>>

(***************************************************************************)
(* cleanJson                                                               *)
(***************************************************************************)
FirstIndexOf(s, c) ==
    IF \E i \in DOMAIN s : s[i] = c
    THEN CHOOSE i \in DOMAIN s : s[i] = c /\ \A j \in 1..(i - 1) : s[j] # c
    ELSE 0

LastIndexOf(s, c) ==
    IF \E i \in DOMAIN s : s[i] = c
    THEN CHOOSE i \in DOMAIN s : s[i] = c /\ \A j \in (i + 1)..Len(s) : s[j] # c
    ELSE 0

\* from the first "{" to the first "}" after it
cleanJson_ToFirstClose(text) ==
    IF \E i, j \in DOMAIN text : i < j /\ text[i] = LB /\ text[j] = RB
    THEN SubSeq(text, FirstIndexOf(text, LB),
                CHOOSE j \in DOMAIN text :
                    /\ j > FirstIndexOf(text, LB) /\ text[j] = RB
                    /\ \A k \in (FirstIndexOf(text, LB) + 1)..(j - 1) : text[k] # RB)
    ELSE Trim(text)

\* the text is only trimmed
cleanJson_TrimOnly(text) == Trim(text)

\* text.match(/\{[\s\S]*\}/): from the first "{" to the last "}" after it
cleanJson(text) ==
    IF FirstIndexOf(text, LB) # 0 /\ FirstIndexOf(text, LB) < LastIndexOf(text, RB)
    THEN SubSeq(text, FirstIndexOf(text, LB), LastIndexOf(text, RB))
    ELSE Trim(text)

(***************************************************************************)
(* repairAndParseJson                                                      *)
(***************************************************************************)
Repeat(c, n) == [i \in 1..n |-> c]

DropTrailingComma(s) ==
    IF s # <<>> /\ s[Len(s)] = CM THEN SubSeq(s, 1, Len(s) - 1) ELSE s

CloseQuote(s) == IF Count(s, QT) % 2 # 0 THEN <<QT>> ELSE <<>>

CloseBrackets(s) ==
    IF Count(s, LK) > Count(s, RK) THEN Repeat(RK, Count(s, LK) - Count(s, RK)) ELSE <<>>

CloseBraces(s) ==
    IF Count(s, LB) > Count(s, RB) THEN Repeat(RB, Count(s, LB) - Count(s, RB)) ELSE <<>>

\* the braces are closed before the brackets
Repaired_BracesFirst(jsonString) ==
    LET r == DropTrailingComma(Trim(jsonString))
    IN  r \o CloseQuote(r) \o CloseBraces(r) \o CloseBrackets(r)

\* the text the second JSON.parse is given
Repaired(jsonString) ==
    LET r == DropTrailingComma(Trim(jsonString))
    IN  r \o CloseQuote(r) \o CloseBrackets(r) \o CloseBraces(r)

\* the parsed value, or null when the repair fails too
repairAndParseJson(jsonString) ==
    IF JsonParse(jsonString).ok THEN JsonParse(jsonString).v
    ELSE IF JsonParse(Repaired(jsonString)).ok THEN JsonParse(Repaired(jsonString)).v
    ELSE Null

(***************************************************************************)
(* resilientParse                                                          *)
(***************************************************************************)
\* /"key"\s*:\s*"/ matched at position i: the position after it, or 0
KeyEnd(s, i, key) ==
    IF At(s, i) = QT /\ At(s, i + 1) = key /\ At(s, i + 2) = QT
       /\ At(s, SkipWs(s, i + 3)) = CL
       /\ At(s, SkipWs(s, SkipWs(s, i + 3) + 1)) = QT
    THEN SkipWs(s, SkipWs(s, i + 3) + 1) + 1
    ELSE 0

\* ((?:[^"\\]|\\.)*)" matched at position i: the group, and the position after
RECURSIVE QuotedBody(_, _, _)
QuotedBody(s, i, acc) ==
    CASE i > Len(s) -> [ok |-> FALSE, body |-> <<>>, i |-> 0]
      [] s[i] = QT -> [ok |-> TRUE, body |-> acc, i |-> i + 1]
      [] s[i] = BS ->
            IF i + 1 <= Len(s) /\ s[i + 1] # NL
            THEN QuotedBody(s, i + 2, acc \o <<s[i], s[i + 1]>>)
            ELSE [ok |-> FALSE, body |-> <<>>, i |-> 0]
      [] OTHER -> QuotedBody(s, i + 1, Append(acc, s[i]))

\* /"key"\s*:\s*"((?:[^"\\]|\\.)*)"/ matched at position i
KeyValueAt(s, i, key) ==
    IF KeyEnd(s, i, key) # 0 THEN QuotedBody(s, KeyEnd(s, i, key), <<>>)
    ELSE [ok |-> FALSE, body |-> <<>>, i |-> 0]

\* s.match(/"key"\s*:\s*"((?:[^"\\]|\\.)*)"/): the leftmost match
KeyValue(s, key) ==
    IF \E i \in DOMAIN s : KeyValueAt(s, i, key).ok
    THEN KeyValueAt(s, CHOOSE i \in DOMAIN s :
                          /\ KeyValueAt(s, i, key).ok
                          /\ \A j \in 1..(i - 1) : ~KeyValueAt(s, j, key).ok, key)
    ELSE [ok |-> FALSE, body |-> <<>>, i |-> 0]

\* text.split(/"title"\s*:\s*"/)
RECURSIVE SplitOnTitle(_, _, _, _)
SplitOnTitle(s, i, cur, parts) ==
    CASE i > Len(s) -> Append(parts, cur)
      [] KeyEnd(s, i, "title") # 0 ->
            SplitOnTitle(s, KeyEnd(s, i, "title"), <<>>, Append(parts, cur))
      [] OTHER -> SplitOnTitle(s, i + 1, Append(cur, s[i]), parts)

\* codeMatch[1].replace(/\\n/g, '\n').replace(/\\"/g, '"')
UnescapeCode(s) ==
    ReplacePair(ReplacePair(ReplacePair(s, BS, "n", <<NL>>), BS, "null", <<NL, "ull">>),
                BS, QT, <<QT>>)

Section(title, content, codeExample) ==
    Obj(<< [k |-> <<"title">>, v |-> title],
           [k |-> <<"content">>, v |-> content],
           [k |-> <<"codeExample">>, v |-> codeExample] >>)

\* the content of the part is not looked for
SectionOfPart_ContentMissing(part) ==
    Section(Str(SubSeq(part, 1, FirstIndexOf(part, QT) - 1)),
            Str(<<"Content missing">>),
            IF KeyValue(part, "codeExample").ok
            THEN Str(UnescapeCode(KeyValue(part, "codeExample").body))
            ELSE Undef)

\* the section scavenged from one part of the split
SectionOfPart(part) ==
    Section(Str(SubSeq(part, 1, FirstIndexOf(part, QT) - 1)),
            IF KeyValue(part, "content").ok
            THEN Str(KeyValue(part, "content").body)
            ELSE Str(<<"Content missing">>),
            IF KeyValue(part, "codeExample").ok
            THEN Str(UnescapeCode(KeyValue(part, "codeExample").body))
            ELSE Undef)

\* the loop over parts[1..]: a part with no quote is skipped
RECURSIVE ScavengeSections(_, _)
ScavengeSections(parts, i) ==
    IF i > Len(parts) THEN <<>>
    ELSE IF FirstIndexOf(parts[i], QT) = 0 THEN ScavengeSections(parts, i + 1)
    ELSE <<SectionOfPart(parts[i])>> \o ScavengeSections(parts, i + 1)

Document(filePath, summary, sections, language) ==
    [filePath |-> filePath, summary |-> summary, sections |-> sections,
     language |-> language]

NoDoc == [none |-> TRUE]

\* the summary of the text is not looked for
resilientParse_PlaceholderSummary(text, fileName) ==
    LET sections == ScavengeSections(SplitOnTitle(text, 1, <<>>, <<>>), 2)
    IN  IF Len(sections) > 0
        THEN Document(Str(fileName), Str(<<"Analysis completed">>), Arr(sections), Undef)
        ELSE NoDoc

\* the recovered document, or NoDoc for null
resilientParse(text, fileName) ==
    LET summary == IF KeyValue(text, "summary").ok
                   THEN Str(KeyValue(text, "summary").body)
                   ELSE Str(<<"Analysis completed">>)
        sections == ScavengeSections(SplitOnTitle(text, 1, <<>>, <<>>), 2)
    IN  IF Len(sections) > 0
        THEN Document(Str(fileName), summary, Arr(sections), Undef)
        ELSE NoDoc

(***************************************************************************)
(* fallbackRaw                                                             *)
(***************************************************************************)
RawLimit == 1000

\* the ellipsis is appended from the limit on, not only above it
fallbackRaw_EllipsisAtLimit(text, fileName) ==
    LET cleanText == Trim(ReplacePair(Without(text, {LB, QT, RB}), "summary", CL, <<>>))
    IN  Document(Str(fileName),
                 Str(<<"Raw Analysis Output (JSON Parse Failed)">>),
                 Arr(<< Section(Str(<<"Analysis">>),
                                Str(SliceChars(cleanText, RawLimit)
                                    \o (IF StrLen(cleanText) >= RawLimit
                                        THEN <<"...">> ELSE <<>>)),
                                Str(<<"// Code example unavailable due to formatting error">>)) >>),
                 Undef)

fallbackRaw(text, fileName) ==
    LET cleanText == Trim(ReplacePair(Without(text, {LB, QT, RB}), "summary", CL, <<>>))
    IN  Document(Str(fileName),
                 Str(<<"Raw Analysis Output (JSON Parse Failed)">>),
                 Arr(<< Section(Str(<<"Analysis">>),
                                Str(SliceChars(cleanText, RawLimit)
                                    \o (IF StrLen(cleanText) > RawLimit
                                        THEN <<"...">> ELSE <<>>)),
                                Str(<<"// Code example unavailable due to formatting error">>)) >>),
                 Undef)

(***************************************************************************)
(* generateDocumentation                                                   *)
(***************************************************************************)
LongLine == 1000

\* the lengths of the lines of fileContent.split('\n')
RECURSIVE LineLengths(_, _)
LineLengths(s, cur) ==
    IF s = <<>> THEN {cur}
    ELSE IF Head(s) = NL THEN {cur} \cup LineLengths(Tail(s), 0)
    ELSE LineLengths(Tail(s), cur + CharLen(Head(s)))

Minified(fileContent) == \E n \in LineLengths(fileContent, 0) : n > LongLine

\* the three strategies applied to a non-empty response text (lines 230-253)
parseResponse(text, fileName) ==
    LET parsed == repairAndParseJson(cleanJson(text))
        recovered == resilientParse(text, fileName)
    IN  IF Truthy(parsed)
        THEN [tier |-> "Strict",
              doc |-> Document(Prop(parsed, "filePath"), Prop(parsed, "summary"),
                               IF Prop(parsed, "sections").t = "arr"
                               THEN Prop(parsed, "sections") ELSE Arr(<<>>),
                               Str(<<"en">>))]
        ELSE IF recovered # NoDoc
        THEN [tier |-> "Recovered", doc |-> [recovered EXCEPT !.language = Str(<<"en">>)]]
        ELSE [tier |-> "RawFallback",
              doc |-> [fallbackRaw(text, fileName) EXCEPT !.language = Str(<<"en">>)]]

MinifiedDoc(fileName) ==
    Document(Str(fileName),
             Str(<<"Skipped: File appears to be minified or generated code.">>),
             Arr(<< Section(Str(<<"Analysis Skipped">>),
                        Str(<<"This file contains extremely long lines (1000+ chars), suggesting it is minified or machine-generated.">>),
                        Str(<<"// No example available">>)) >>),
             Str(<<"en">>))

BlockedDoc(fileName) ==
    Document(Str(fileName),
             Str(<<"Analysis Blocked: AI returned no content.">>),
             Arr(<< Section(Str(<<"Safety/Filter Block">>),
                        Str(<<"The AI model refused to generate content for this file.">>),
                        Str(<<"// No content generated">>)) >>),
             Str(<<"en">>))

ServiceErrorDoc(fileName) ==
    Document(Str(fileName),
             Str(<<"Service Error: Unable to contact AI.">>),
             Arr(<< Section(Str(<<"API Error">>),
                        Str(<<"Failed to connect to the Gemini API.">>),
                        Str(<<>>)) >>),
             Str(<<"en">>))

\* what the model call gave: its text, or a thrown error
Text(text) == [threw |-> FALSE, text |-> text]
Threw == [threw |-> TRUE, text |-> <<>>]

\* an empty text is parsed like any other
generateDocumentation_ParsesEmpty(fileName, fileContent, response) ==
    CASE Minified(fileContent) -> [tier |-> "Minified", doc |-> MinifiedDoc(fileName)]
      [] response.threw -> [tier |-> "ServiceError", doc |-> ServiceErrorDoc(fileName)]
      [] OTHER -> parseResponse(response.text, fileName)

\* the document returned and the branch that returned it
generateDocumentation(fileName, fileContent, response) ==
    CASE Minified(fileContent) -> [tier |-> "Minified", doc |-> MinifiedDoc(fileName)]
      [] response.threw -> [tier |-> "ServiceError", doc |-> ServiceErrorDoc(fileName)]
      [] response.text = <<>> -> [tier |-> "Blocked", doc |-> BlockedDoc(fileName)]
      [] OTHER -> parseResponse(response.text, fileName)

(***************************************************************************)
(* verifyCodeExample                                                       *)
(***************************************************************************)
Verification(status, logs, fixedCode) ==
    [status |-> status, logs |-> logs, fixedCode |-> fixedCode]

\* success unless the oracle said FAILED
verifyCodeExample_UnlessFailed(response) ==
    LET data == JsonParse(cleanJson(response.text))
    IN  CASE response.threw ->
                Verification("FAILED", Str(<<"System Error: ", "<error.message>">>), Undef)
          [] response.text = <<>> ->
                Verification("FAILED",
                    Str(<<"Verification process failed to return a valid response.">>), Undef)
          [] ~data.ok \/ data.v.t = "null" ->
                Verification("FAILED",
                    Str(<<"Verification failed: Invalid JSON response from AI.">>), Undef)
          [] OTHER ->
                Verification(IF Prop(data.v, "status") = Str(<<"FAILED">>)
                             THEN "FAILED" ELSE "SUCCESS",
                             Prop(data.v, "logs"), Prop(data.v, "fixedCode"))

\* the record returned for what the oracle call gave; reading data.status of
\* JSON null throws inside the inner try, like a syntax error
verifyCodeExample(response) ==
    LET data == JsonParse(cleanJson(response.text))
    IN  CASE response.threw ->
                Verification("FAILED", Str(<<"System Error: ", "<error.message>">>), Undef)
          [] response.text = <<>> ->
                Verification("FAILED",
                    Str(<<"Verification process failed to return a valid response.">>), Undef)
          [] ~data.ok \/ data.v.t = "null" ->
                Verification("FAILED",
                    Str(<<"Verification failed: Invalid JSON response from AI.">>), Undef)
          [] OTHER ->
                Verification(IF Prop(data.v, "status") = Str(<<"SUCCESS">>)
                             THEN "SUCCESS" ELSE "FAILED",
                             Prop(data.v, "logs"), Prop(data.v, "fixedCode"))

(***************************************************************************)
(* translateDocumentation                                                  *)
(***************************************************************************)
\* a || b
OrElse(a, b) == IF Truthy(a) THEN a ELSE b

\* the enumerable own properties {...v} copies (those of an object)
OwnProps(v) == IF v.t = "obj" THEN v.kids ELSE <<>>

\* the sections of a document as a sequence: Array.isArray(x) ? x : []
SectionsOf(doc) == IF doc.sections.t = "arr" THEN doc.sections.kids ELSE <<>>

\* v?.[idx] for the zero-based index idx - 1
ElemAt(v, idx) ==
    CASE v.t = "arr" /\ idx \in DOMAIN v.kids -> v.kids[idx]
      [] v.t = "obj" -> Prop(v, ToString(idx - 1))
      [] OTHER -> Undef

\* the title and the content of the translator are taken as they are
MergeSection_TakesEmpty(section, tr) ==
    Obj(SetProp(SetProp(OwnProps(section), <<"title">>, Prop(tr, "title")),
                <<"content">>, Prop(tr, "content")))

\* { ...section, title: tr?.title || section.title, content: tr?.content || section.content }
MergeSection(section, tr) ==
    Obj(SetProp(SetProp(OwnProps(section),
                        <<"title">>, OrElse(Prop(tr, "title"), Prop(section, "title"))),
                <<"content">>, OrElse(Prop(tr, "content"), Prop(section, "content"))))

\* doc.sections.map(...) of the prompt throws before the try when sections is no array
translateThrows(doc, targetLanguage) ==
    /\ doc.language # Str(<<targetLanguage>>)
    /\ \/ doc.sections.t # "arr"
       \/ \E i \in DOMAIN doc.sections.kids : doc.sections.kids[i].t \in {"undefined", "null"}

\* the document returned for what the translator call gave
translateDocumentation(doc, targetLanguage, response) ==
    LET parsed == repairAndParseJson(cleanJson(response.text))
    IN  CASE doc.language = Str(<<targetLanguage>>) -> doc
          [] response.threw \/ response.text = <<>> \/ ~Truthy(parsed) -> doc
          [] OTHER ->
                [doc EXCEPT
                    !.summary = Prop(parsed, "summary"),
                    !.sections = Arr([idx \in DOMAIN doc.sections.kids |->
                                        MergeSection(doc.sections.kids[idx],
                                                     ElemAt(Prop(parsed, "sections"), idx))]),
                    !.language = Str(<<targetLanguage>>)]

(***************************************************************************)
(* parseRepoUrl.  A URL is whether new URL(url) accepts it and the         *)
(* non-empty parts of its path.                                            *)
(***************************************************************************)
NoRepo == [none |-> TRUE]

parseRepoUrl(url) ==
    IF url.wellFormed /\ Len(url.parts) >= 2
    THEN [owner |-> url.parts[1], repo |-> url.parts[2]]
    ELSE NoRepo

(***************************************************************************)
(* What the model explores: the repository, and what the external calls    *)
(* return.                                                                 *)
(***************************************************************************)
Urls == { [wellFormed |-> TRUE, parts |-> <<"o", "r">>],
          [wellFormed |-> TRUE, parts |-> <<"o">>],
          [wellFormed |-> FALSE, parts |-> <<>>] }

File(path, sha) == [name |-> path, path |-> path, type |-> "file", sha |-> sha]
NoFile == [none |-> TRUE]

PathA == <<"a.ts">>
PathB == <<"a.ts", CL, "b.ts">>
Shas == {"sha1", "sha2"}

\* the trees fetchRepoTree returns: files of the root directory
Trees == { {}, {File(PathA, "sha1"), File(PathB, "sha2")} }

\* the messages handleGitHubError throws: not found, unauthorized, rate limit
FetchErrors ==
    { "Repository or file not found. Please check the URL and ensure the repository is public.",
      "Unauthorized. Please check your GitHub Token permissions.",
      "GitHub API Rate Limit Exceeded. Please add a Token to increase limits (60 -> 5000 req/hr)." }

FileContent == <<"x">>

KV(k, v) == <<QT, k, QT, CL, QT, v, QT>>

GoodDocText ==
    <<LB>> \o KV("summary", "x") \o <<CM, QT, "sections", QT, CL, LK, LB>>
    \o KV("title", "A") \o <<CM>> \o KV("content", "B") \o <<CM>> \o KV("codeExample", "c")
    \o <<RB, CM, LB>> \o KV("title", "A") \o <<CM>> \o KV("content", "B") \o <<RB, RK, RB>>

\* three sections: the first without a code example, then "e", then "c"
ExamplesDocText ==
    <<LB>> \o KV("summary", "x") \o <<CM, QT, "sections", QT, CL, LK, LB>>
    \o KV("title", "A") \o <<CM>> \o KV("content", "B")
    \o <<RB, CM, LB>> \o KV("title", "A") \o <<CM>> \o KV("content", "B") \o <<CM>>
    \o KV("codeExample", "e")
    \o <<RB, CM, LB>> \o KV("title", "A") \o <<CM>> \o KV("content", "B") \o <<CM>>
    \o KV("codeExample", "c") \o <<RB, RK, RB>>

GenResponses ==
    {Threw, Text(<<>>), Text(<<LB, RB>>), Text(ExamplesDocText)}

VerifyResponses ==
    { Threw, Text(<<>>), Text(<<"x">>),
      Text(<<LB>> \o KV("status", "SUCCESS") \o <<CM>> \o KV("logs", "x") \o <<RB>>),
      Text(<<LB>> \o KV("status", "FAILED") \o <<CM>> \o KV("logs", "x") \o <<CM>>
           \o KV("fixedCode", "d") \o <<RB>>) }

TranslateResponses ==
    { Threw, Text(<<"x">>),
      Text(<<LB>> \o KV("summary", "y") \o <<CM, QT, "sections", QT, CL, LK, LB>>
           \o KV("title", "T") \o <<CM>> \o KV("content", "U") \o <<RB, RK, RB>>) }

\* the languages of the menu that the model offers
Languages == {"en", "es"}

(***************************************************************************)
(* State                                                                   *)
(***************************************************************************)
VARIABLES
    allFiles,          \* the files of the loaded tree
    selectedFile,      \* the file selected, or NoFile
    docState,          \* path -> canonical document
    translationCache,  \* "path:lang" -> translated document
    status,            \* ProcessingState
    errorMsg,          \* the error shown, or NoError
    repoInfo,          \* owner and repo, or NoRepo
    viewLanguage,      \* the language the viewer shows
    inflight,          \* bag of handler invocations waiting for an external call
    started,           \* how many file requests were begun
    lastOp,            \* the handler step taken last
    fileContent,       \* generateDocumentation taken alone: its inputs ...
    response,
    generated,         \* ... and its result
    verified,          \* verifyCodeExample taken alone: its result
    translated         \* translateDocumentation taken alone: its arguments and result

appVars == <<allFiles, selectedFile, docState, translationCache, status, errorMsg,
             repoInfo, viewLanguage, inflight, started, lastOp>>
genVars == <<fileContent, response, generated, verified, translated>>
vars == <<appVars, genVars>>

\* most file requests (generation, verification, translation) begun in one behaviour
MaxStarted == 3

NoError == "<null>"

\* a step, what it was given, and the caches and the error it started from
Op(op, path, arg) ==
    [op |-> op, path |-> path, arg |-> arg,
     before |-> [docState |-> docState, translationCache |-> translationCache,
                 errorMsg |-> errorMsg]]

\* a handler invocation suspended at an await: what its closure holds
Request(kind, pc, file, example, lang, base) ==
    [kind |-> kind, pc |-> pc, file |-> file, example |-> example, lang |-> lang,
     base |-> base]

Pending == BagToSet(inflight)
CanStart == BagCardinality(inflight) < MaxInflight /\ started < MaxStarted
Suspend(r) == inflight (+) SetToBag({r})
Resume(r) == inflight (-) SetToBag({r})

(***************************************************************************)
(* The caches                                                              *)
(***************************************************************************)
Key(path, lang) == path \o <<CL, lang>>

StartsWith(s, prefix) == Len(s) >= Len(prefix) /\ SubSeq(s, 1, Len(prefix)) = prefix

Has(store, key) == key \in DOMAIN store
Lookup(store, key) == IF Has(store, key) THEN store[key] ELSE NoDoc

\* { ...prev, [key]: doc }
Put(store, key, doc) ==
    [k \in DOMAIN store \cup {key} |-> IF k = key THEN doc ELSE store[k]]

\* delete next[path]: the key is taken to be the path alone
invalidatePath_ByPathOnly(cache, path) ==
    [k \in {key \in DOMAIN cache : key # path} |-> cache[k]]

\* delete next[key] for every key that starts with path + ':'
invalidatePath(cache, path) ==
    [k \in {key \in DOMAIN cache : ~StartsWith(key, path \o <<CL>>)} |-> cache[k]]

\* the overlays are left with the verification they had
refreshVerification_Skipped(cache, path, result) == cache

\* next[key] = { ...next[key], verification: result } for every such key
refreshVerification(cache, path, result) ==
    [k \in DOMAIN cache |->
        IF StartsWith(k, path \o <<CL>>)
        THEN [cache[k] EXCEPT !.verification = result] ELSE cache[k]]

\* { ...prev[path], verification: result }: an entry with nothing else when
\* prev[path] is undefined
setVerification(store, path, result) ==
    Put(store, path,
        IF Has(store, path) THEN [store[path] EXCEPT !.verification = result]
        ELSE [filePath |-> Undef, summary |-> Undef, sections |-> Undef,
              language |-> Undef, sourceSha |-> Undef, verification |-> result])

\* the verification of the entry replaced is kept
upsertGenerated_KeepsVerification(store, file, doc) ==
    Put(store, file.path,
        [filePath |-> doc.filePath, summary |-> doc.summary, sections |-> doc.sections,
         language |-> doc.language, sourceSha |-> Str(<<file.sha>>),
         verification |-> IF Has(store, file.path) THEN store[file.path].verification
                          ELSE Verification("IDLE", Str(<<>>), Undef)])

\* the document is stored without the fingerprint of its file
upsertGenerated_NoSha(store, file, doc) ==
    Put(store, file.path,
        [filePath |-> doc.filePath, summary |-> doc.summary, sections |-> doc.sections,
         language |-> doc.language, sourceSha |-> Undef,
         verification |-> Verification("IDLE", Str(<<>>), Undef)])

\* newDoc of processFile
upsertGenerated(store, file, doc) ==
    Put(store, file.path,
        [filePath |-> doc.filePath, summary |-> doc.summary, sections |-> doc.sections,
         language |-> doc.language, sourceSha |-> Str(<<file.sha>>),
         verification |-> Verification("IDLE", Str(<<>>), Undef)])

\* only the presence of an entry is looked at
isStale_IgnoresSha(store, path, sha) == ~Has(store, path)

\* the check of handleFileSelect: !existingDoc || existingDoc.sourceSha !== file.sha
isStale(store, path, sha) ==
    ~Has(store, path) \/ store[path].sourceSha # Str(<<sha>>)

\* the code example of every section is replaced, those without one included
FixSections_EverySection(doc, fixedCode) ==
    [i \in DOMAIN SectionsOf(doc) |->
        Obj(SetProp(OwnProps(SectionsOf(doc)[i]), <<"codeExample">>, fixedCode))]

\* prev[path].sections.map(s => s.codeExample ? {...s, codeExample: fixedCode} : s)
FixSections(doc, fixedCode) ==
    [i \in DOMAIN SectionsOf(doc) |->
        IF Truthy(Prop(SectionsOf(doc)[i], "codeExample"))
        THEN Obj(SetProp(OwnProps(SectionsOf(doc)[i]), <<"codeExample">>, fixedCode))
        ELSE SectionsOf(doc)[i]]

\* the code examples are replaced and the verification is kept
applyFix_KeepsVerification(store, path, fixedCode) ==
    Put(store, path,
        [store[path] EXCEPT !.sections = Arr(FixSections(store[path], fixedCode))])

\* the updater of handleApplyFix
applyFix(store, path, fixedCode) ==
    Put(store, path,
        [store[path] EXCEPT
            !.sections = Arr(FixSections(store[path], fixedCode)),
            !.verification =
                Verification("IDLE", Str(<<"Fix applied. Ready for re-verification.">>),
                             Undef)])

getCurrentDoc ==
    CASE selectedFile = NoFile -> NoDoc
      [] viewLanguage = "en" -> Lookup(docState, selectedFile.path)
      [] Has(translationCache, Key(selectedFile.path, viewLanguage)) ->
            translationCache[Key(selectedFile.path, viewLanguage)]
      [] OTHER -> Lookup(docState, selectedFile.path)

HasExample(doc) ==
    \E i \in DOMAIN SectionsOf(doc) : Truthy(Prop(SectionsOf(doc)[i], "codeExample"))

\* the code example of the last section that has one
FirstExample_LastWithExample(doc) ==
    Prop(SectionsOf(doc)[CHOOSE i \in DOMAIN SectionsOf(doc) :
            /\ Truthy(Prop(SectionsOf(doc)[i], "codeExample"))
            /\ \A j \in (i + 1)..Len(SectionsOf(doc)) :
                  ~Truthy(Prop(SectionsOf(doc)[j], "codeExample"))],
         "codeExample")

\* sections.find(s => s.codeExample).codeExample
FirstExample(doc) ==
    Prop(SectionsOf(doc)[CHOOSE i \in DOMAIN SectionsOf(doc) :
            /\ Truthy(Prop(SectionsOf(doc)[i], "codeExample"))
            /\ \A j \in 1..(i - 1) : ~Truthy(Prop(SectionsOf(doc)[j], "codeExample"))],
         "codeExample")

(***************************************************************************)
(* What is on screen: the controls that call the handlers                  *)
(***************************************************************************)
\* the repository form stays on screen beside the file tree
RepoInputShown_Always == TRUE

RepoInputShown == allFiles = {} /\ status # "FETCHING"
FileTreeShown == allFiles # {}
DocShown == allFiles # {} /\ status # "ANALYZING" /\ getCurrentDoc # NoDoc
LanguageMenuShown == DocShown /\ status # "TRANSLATING"
VerifyShown ==
    /\ DocShown /\ HasExample(getCurrentDoc)
    /\ getCurrentDoc.verification.status # "SUCCESS" /\ status # "VERIFYING"
ApplyFixShown ==
    /\ DocShown /\ HasExample(getCurrentDoc)
    /\ getCurrentDoc.verification.status = "FAILED"
    /\ Truthy(getCurrentDoc.verification.fixedCode)

(***************************************************************************)
(* Initial state: the state of App after its first render                  *)
(***************************************************************************)
EmptyStore == [k \in {} |-> NoDoc]

AppInit ==
    /\ allFiles = {}
    /\ selectedFile = NoFile
    /\ docState = EmptyStore
    /\ translationCache = EmptyStore
    /\ status = "IDLE"
    /\ errorMsg = NoError
    /\ repoInfo = NoRepo
    /\ viewLanguage = "en"
    /\ inflight = EmptyBag
    /\ started = 0
    /\ lastOp = Op("init", <<>>, Undef)

Init ==
    /\ AppInit
    /\ fileContent = FileContent
    /\ response = Threw
    /\ generated = NoDoc
    /\ verified = NoDoc
    /\ translated = NoDoc

(***************************************************************************)
(* handleRepoSubmit                                                        *)
(***************************************************************************)
handleRepoSubmit(url) ==
    /\ RepoInputShown
    /\ lastOp' = Op("handleRepoSubmit", <<>>, Undef)
    /\ IF parseRepoUrl(url) = NoRepo
       THEN /\ errorMsg' = "Invalid GitHub URL"
            /\ status' = "ERROR"
            /\ UNCHANGED <<allFiles, selectedFile, docState, translationCache, repoInfo,
                           viewLanguage, inflight, started>>
       ELSE /\ repoInfo' = parseRepoUrl(url)
            /\ allFiles' = {}
            /\ docState' = EmptyStore
            /\ translationCache' = EmptyStore
            /\ selectedFile' = NoFile
            /\ viewLanguage' = "en"
            /\ errorMsg' = NoError
            /\ status' = "FETCHING"
            /\ inflight' = Suspend(Request("repo", "details", NoFile, Undef, "", NoDoc))
            /\ UNCHANGED started
    /\ UNCHANGED genVars

\* fetchRepoDetails returned
repoDetailsFetched(r) ==
    /\ r \in Pending /\ r.kind = "repo" /\ r.pc = "details"
    /\ inflight' = Suspend([r EXCEPT !.pc = "tree"]) (-) SetToBag({r})
    /\ lastOp' = Op("repoDetailsFetched", <<>>, Undef)
    /\ UNCHANGED <<allFiles, selectedFile, docState, translationCache, status, errorMsg,
                   repoInfo, viewLanguage, started, genVars>>

\* fetchRepoTree returned treeFiles
repoTreeFetched(r, treeFiles) ==
    /\ r \in Pending /\ r.kind = "repo" /\ r.pc = "tree"
    /\ inflight' = Resume(r)
    /\ lastOp' = Op("repoTreeFetched", <<>>, Undef)
    /\ IF treeFiles = {}
       THEN /\ errorMsg' = "Repository is empty or not found."
            /\ UNCHANGED allFiles
       ELSE /\ allFiles' = treeFiles
            /\ UNCHANGED errorMsg
    /\ status' = "IDLE"
    /\ UNCHANGED <<selectedFile, docState, translationCache, repoInfo, viewLanguage,
                   started, genVars>>

\* fetchRepoDetails or fetchRepoTree threw
repoFetchFailed(r, message) ==
    /\ r \in Pending /\ r.kind = "repo"
    /\ inflight' = Resume(r)
    /\ lastOp' = Op("repoFetchFailed", <<>>, Str(<<message>>))
    /\ errorMsg' = message
    /\ status' = "ERROR"
    /\ UNCHANGED <<allFiles, selectedFile, docState, translationCache, repoInfo,
                   viewLanguage, started, genVars>>

(***************************************************************************)
(* handleFileSelect and processFile                                        *)
(***************************************************************************)
\* the effect on selectedFile?.path: the view language goes back to 'en'
LanguageAfterSelect(file) ==
    IF selectedFile # NoFile /\ selectedFile.path = file.path THEN viewLanguage ELSE "en"

handleFileSelect(file) ==
    /\ FileTreeShown /\ file \in allFiles
    /\ file.type = "file"
    /\ selectedFile' = file
    /\ viewLanguage' = LanguageAfterSelect(file)
    /\ lastOp' = Op("handleFileSelect", file.path, Undef)
    /\ IF isStale(docState, file.path, file.sha) /\ repoInfo # NoRepo
       THEN /\ CanStart
            /\ status' = "ANALYZING"
            /\ inflight' = Suspend(Request("generate", "fetch", file, Undef, "", NoDoc))
            /\ started' = started + 1
       ELSE UNCHANGED <<status, inflight, started>>
    /\ UNCHANGED <<allFiles, docState, translationCache, errorMsg, repoInfo, genVars>>

\* fetchFileContent returned
processFileFetched(r) ==
    /\ r \in Pending /\ r.kind = "generate" /\ r.pc = "fetch"
    /\ inflight' = Suspend([r EXCEPT !.pc = "model"]) (-) SetToBag({r})
    /\ lastOp' = Op("processFileFetched", r.file.path, Undef)
    /\ UNCHANGED <<allFiles, selectedFile, docState, translationCache, status, errorMsg,
                   repoInfo, viewLanguage, started, genVars>>

\* the catch of processFile reports the error and leaves the status as it is
processFileFetchFailed_StatusKept(r, message) ==
    /\ r \in Pending /\ r.kind = "generate" /\ r.pc = "fetch"
    /\ inflight' = Resume(r)
    /\ lastOp' = Op("processFileFetchFailed", r.file.path, Str(<<message>>))
    /\ errorMsg' = "Failed to generate docs: " \o message
    /\ UNCHANGED <<allFiles, selectedFile, docState, translationCache, repoInfo,
                   viewLanguage, started, genVars, status>>

\* fetchFileContent threw
processFileFetchFailed(r, message) ==
    /\ r \in Pending /\ r.kind = "generate" /\ r.pc = "fetch"
    /\ inflight' = Resume(r)
    /\ lastOp' = Op("processFileFetchFailed", r.file.path, Str(<<message>>))
    /\ errorMsg' = "Failed to generate docs: " \o message
    /\ status' = "ERROR"
    /\ UNCHANGED <<allFiles, selectedFile, docState, translationCache, repoInfo,
                   viewLanguage, started, genVars>>

\* generateDocumentation returned
processFileGenerated(r, resp) ==
    /\ r \in Pending /\ r.kind = "generate" /\ r.pc = "model"
    /\ inflight' = Resume(r)
    /\ lastOp' = Op("processFileGenerated", r.file.path, resp)
    /\ docState' = upsertGenerated(docState, r.file,
                       generateDocumentation(r.file.name, FileContent, resp).doc)
    /\ translationCache' = invalidatePath(translationCache, r.file.path)
    /\ status' = "IDLE"
    /\ UNCHANGED <<allFiles, selectedFile, errorMsg, repoInfo, viewLanguage, started,
                   genVars>>

(***************************************************************************)
(* handleVerify                                                            *)
(***************************************************************************)
handleVerify ==
    /\ VerifyShown
    /\ selectedFile # NoFile /\ repoInfo # NoRepo
    /\ getCurrentDoc # NoDoc
    /\ HasExample(getCurrentDoc)
    /\ CanStart
    /\ status' = "VERIFYING"
    /\ inflight' = Suspend(Request("verify", "fetch", selectedFile,
                                   FirstExample(getCurrentDoc), "", NoDoc))
    /\ started' = started + 1
    /\ lastOp' = Op("handleVerify", selectedFile.path, Undef)
    /\ UNCHANGED <<allFiles, selectedFile, docState, translationCache, errorMsg, repoInfo,
                   viewLanguage, genVars>>

\* fetchFileContent returned
handleVerifyFetched(r) ==
    /\ r \in Pending /\ r.kind = "verify" /\ r.pc = "fetch"
    /\ inflight' = Suspend([r EXCEPT !.pc = "model"]) (-) SetToBag({r})
    /\ lastOp' = Op("handleVerifyFetched", r.file.path, Undef)
    /\ UNCHANGED <<allFiles, selectedFile, docState, translationCache, status, errorMsg,
                   repoInfo, viewLanguage, started, genVars>>

\* the failure is only logged
handleVerifyFetchFailed_OnlyLogged(r, message) ==
    /\ r \in Pending /\ r.kind = "verify" /\ r.pc = "fetch"
    /\ inflight' = Resume(r)
    /\ lastOp' = Op("handleVerifyFetchFailed", r.file.path, Str(<<message>>))
    /\ status' = "IDLE"
    /\ UNCHANGED <<allFiles, selectedFile, docState, translationCache, errorMsg, repoInfo,
                   viewLanguage, started, genVars>>

\* fetchFileContent threw
handleVerifyFetchFailed(r, message) ==
    /\ r \in Pending /\ r.kind = "verify" /\ r.pc = "fetch"
    /\ inflight' = Resume(r)
    /\ lastOp' = Op("handleVerifyFetchFailed", r.file.path, Str(<<message>>))
    /\ errorMsg' = "Verification failed: " \o message
    /\ status' = "IDLE"
    /\ UNCHANGED <<allFiles, selectedFile, docState, translationCache, repoInfo,
                   viewLanguage, started, genVars>>

\* verifyCodeExample returned
handleVerifyResult(r, resp) ==
    /\ r \in Pending /\ r.kind = "verify" /\ r.pc = "model"
    /\ inflight' = Resume(r)
    /\ lastOp' = Op("handleVerifyResult", r.file.path, resp)
    /\ docState' = setVerification(docState, r.file.path, verifyCodeExample(resp))
    /\ translationCache' =
            refreshVerification(translationCache, r.file.path, verifyCodeExample(resp))
    /\ status' = "IDLE"
    /\ UNCHANGED <<allFiles, selectedFile, errorMsg, repoInfo, viewLanguage, started,
                   genVars>>

(***************************************************************************)
(* onTranslateRequest and handleTranslate                                  *)
(***************************************************************************)
\* the cache is not looked up: every request for another language translates
onTranslateRequest_NoCacheLookup(targetLang) ==
    /\ LanguageMenuShown
    /\ viewLanguage' = targetLang
    /\ lastOp' = Op("onTranslateRequest", selectedFile.path, Str(<<targetLang>>))
    /\ IF \/ selectedFile = NoFile \/ ~Has(docState, selectedFile.path)
          \/ targetLang = "en"
       THEN UNCHANGED <<status, errorMsg, inflight, started>>
       ELSE /\ CanStart
            /\ status' = "TRANSLATING"
            /\ inflight' = Suspend(Request("translate", "model", selectedFile, Undef,
                                           targetLang, docState[selectedFile.path]))
            /\ started' = started + 1
            /\ UNCHANGED errorMsg
    /\ UNCHANGED <<allFiles, selectedFile, docState, translationCache, repoInfo, genVars>>

onTranslateRequest(targetLang) ==
    /\ LanguageMenuShown
    /\ viewLanguage' = targetLang
    /\ lastOp' = Op("onTranslateRequest", selectedFile.path, Str(<<targetLang>>))
    /\ IF \/ selectedFile = NoFile \/ ~Has(docState, selectedFile.path)
          \/ targetLang = "en"
          \/ Has(translationCache, Key(selectedFile.path, targetLang))
       THEN UNCHANGED <<status, errorMsg, inflight, started>>
       ELSE IF translateThrows(docState[selectedFile.path], targetLang)
       THEN /\ errorMsg' = "Translation failed"
            /\ status' = "IDLE"
            /\ UNCHANGED <<inflight, started>>
       ELSE /\ CanStart
            /\ status' = "TRANSLATING"
            /\ inflight' = Suspend(Request("translate", "model", selectedFile, Undef,
                                           targetLang, docState[selectedFile.path]))
            /\ started' = started + 1
            /\ UNCHANGED errorMsg
    /\ UNCHANGED <<allFiles, selectedFile, docState, translationCache, repoInfo, genVars>>

\* translateDocumentation returned
handleTranslateResult(r, resp) ==
    /\ r \in Pending /\ r.kind = "translate"
    /\ inflight' = Resume(r)
    /\ lastOp' = Op("handleTranslateResult", r.file.path, resp)
    /\ translationCache' = Put(translationCache, Key(r.file.path, r.lang),
                               translateDocumentation(r.base, r.lang, resp))
    /\ status' = "IDLE"
    /\ UNCHANGED <<allFiles, selectedFile, docState, errorMsg, repoInfo, viewLanguage,
                   started, genVars>>

(***************************************************************************)
(* handleApplyFix                                                          *)
(***************************************************************************)
handleApplyFix ==
    /\ ApplyFixShown
    /\ selectedFile # NoFile /\ Has(docState, selectedFile.path)
    /\ docState' = applyFix(docState, selectedFile.path,
                            getCurrentDoc.verification.fixedCode)
    /\ translationCache' = invalidatePath(translationCache, selectedFile.path)
    /\ lastOp' = Op("handleApplyFix", selectedFile.path, getCurrentDoc.verification.fixedCode)
    /\ UNCHANGED <<allFiles, selectedFile, status, errorMsg, repoInfo, viewLanguage,
                   inflight, started, genVars>>

(***************************************************************************)
(* dismissError                                                            *)
(***************************************************************************)
dismissError ==
    /\ errorMsg # NoError
    /\ errorMsg' = NoError
    /\ lastOp' = Op("dismissError", <<>>, Undef)
    /\ UNCHANGED <<allFiles, selectedFile, docState, translationCache, status, repoInfo,
                   viewLanguage, inflight, started, genVars>>

Next ==
    \/ \E url \in Urls : handleRepoSubmit(url)
    \/ \E r \in Pending : repoDetailsFetched(r)
    \/ \E r \in Pending, treeFiles \in Trees : repoTreeFetched(r, treeFiles)
    \/ \E r \in Pending, message \in FetchErrors : repoFetchFailed(r, message)
    \/ \E file \in allFiles : handleFileSelect(file)
    \/ \E r \in Pending : processFileFetched(r)
    \/ \E r \in Pending, message \in FetchErrors : processFileFetchFailed(r, message)
    \/ \E r \in Pending, resp \in GenResponses : processFileGenerated(r, resp)
    \/ handleVerify
    \/ \E r \in Pending : handleVerifyFetched(r)
    \/ \E r \in Pending, message \in FetchErrors : handleVerifyFetchFailed(r, message)
    \/ \E r \in Pending, resp \in VerifyResponses : handleVerifyResult(r, resp)
    \/ \E targetLang \in Languages : onTranslateRequest(targetLang)
    \/ \E r \in Pending, resp \in TranslateResponses : handleTranslateResult(r, resp)
    \/ handleApplyFix
    \/ dismissError

Spec == Init /\ [][Next]_vars

\* the continuations after an await: an external call returned or failed
Completion ==
    \/ \E r \in Pending : repoDetailsFetched(r)
    \/ \E r \in Pending, treeFiles \in Trees : repoTreeFetched(r, treeFiles)
    \/ \E r \in Pending, message \in FetchErrors : repoFetchFailed(r, message)
    \/ \E r \in Pending : processFileFetched(r)
    \/ \E r \in Pending, message \in FetchErrors : processFileFetchFailed(r, message)
    \/ \E r \in Pending, resp \in GenResponses : processFileGenerated(r, resp)
    \/ \E r \in Pending : handleVerifyFetched(r)
    \/ \E r \in Pending, message \in FetchErrors : handleVerifyFetchFailed(r, message)
    \/ \E r \in Pending, resp \in VerifyResponses : handleVerifyResult(r, resp)
    \/ \E r \in Pending, resp \in TranslateResponses : handleTranslateResult(r, resp)

\* every external call eventually returns or fails
SpecLive == Init /\ [][Next]_vars /\ WF_vars(Completion)

(***************************************************************************)
(* generateDocumentation taken alone: every response text made of at most  *)
(* MaxLen pieces, and the texts of the documented examples                 *)
(***************************************************************************)
FileName == <<"f">>

Pieces ==
    { <<LB>>, <<RB>>, <<LK>>, <<RK>>, <<QT>>, <<CM>>, <<BS>>, <<"x">>,
      <<LB>> \o KV("summary", "x") \o <<CM, QT, "sections", QT, CL, LK>>,
      <<LB>> \o KV("title", "A") \o <<CM>> \o KV("content", "B") \o <<RB>>,
      <<QT, "title", QT, CL, SP, QT, "A">>,
      <<QT, "content", QT, CL, SP, QT, "B">> }

RECURSIVE Concat(_)
Concat(ps) == IF ps = <<>> THEN <<>> ELSE Head(ps) \o Concat(Tail(ps))

PieceTexts == {Concat(ps) : ps \in UNION {[1..n -> Pieces] : n \in 0..MaxLen}}

TrailingCommaText ==
    <<LB>> \o KV("summary", "x") \o <<CM, QT, "sections", QT, CL, LK, LB>>
    \o KV("title", "A") \o <<CM>> \o KV("content", "B") \o <<RB, CM, RK, RB>>

TruncatedText ==
    <<LB>> \o KV("summary", "x") \o <<CM, SP, QT, "sections", QT, CL, LK, LB>>
    \o KV("title", "A") \o <<CM, QT, "content", QT, CL, QT, "B">>

ScavengeText ==
    <<"garbage", SP, QT, "title", QT, CL, SP, QT, "Setup", QT, SP, "garbage", SP,
      QT, "content", QT, CL, SP, QT, "Install deps", QT, SP, "garbage">>

SampleTexts ==
    { GoodDocText, TrailingCommaText, TruncatedText, ScavengeText,
      <<"x", SP, "x", CL, NL>> \o GoodDocText \o <<NL, "x">>,
      <<"~", "~", "~", "json", NL>> \o GoodDocText \o <<NL, "~", "~", "~", NL>>,
      <<"null">>, <<"0">>, <<"1">>, <<SP, LB, SP, RB, NL>>,
      <<LB, QT, "summary", QT, CL, QT>>,
      <<SP, NL>>,
      <<LB>> \o KV("summary", "x") \o <<CM, QT, "sections", QT, CL, LK, LB>>
          \o KV("title", "A") \o <<RB, CM, "1", RK, RB>>,
      <<LB>> \o KV("summary", "a") \o <<CM, QT, "sections", QT, CL, LK, RK, RB>>,
      <<LB, QT, "summary", QT, CL, QT, "a", BS, QT, "b">>,
      <<Run(999), "x">>, <<Run(1001)>>, <<LB, Run(1000), "x", QT>>,
      <<LB>> \o KV("summary", "x") \o <<CM, QT, "sections", QT, CL, "1", RB>>,
      <<LB, QT, "summary", QT, CL, "null", RB>> }

GenInputs ==
    {<<FileContent, Text(t)>> : t \in PieceTexts \cup SampleTexts}
    \cup {<<FileContent, Threw>>, <<<<"x", NL, Run(1001)>>, Threw>>,
          <<<<Run(1000), NL, "x">>, Text(GoodDocText)>>}

InitGen ==
    /\ AppInit
    /\ \E in \in GenInputs : fileContent = in[1] /\ response = in[2]
    /\ generated = NoDoc
    /\ verified = NoDoc
    /\ translated = NoDoc

generate ==
    /\ generated = NoDoc
    /\ generated' = generateDocumentation(FileName, fileContent, response)
    /\ UNCHANGED <<appVars, fileContent, response, verified, translated>>

NextGen == generate

SpecGen == InitGen /\ [][NextGen]_vars

(***************************************************************************)
(* verifyCodeExample taken alone, on the texts the oracle can return       *)
(***************************************************************************)
VerifyPieces ==
    { <<LB>>, <<RB>>, <<CM>>, <<"x">>, <<"null">>, <<QT, "SUCCESS", QT>>,
      KV("status", "SUCCESS"), KV("status", "FAILED"), KV("status", "success"),
      <<QT, "status", QT, CL, "true">>,
      KV("status", "SUCCESS") \o <<CM>> \o KV("logs", "x"),
      KV("logs", "SUCCESS") \o <<CM>> \o KV("fixedCode", "d") }

VerifyTexts == {Concat(ps) : ps \in UNION {[1..n -> VerifyPieces] : n \in 0..MaxLen}}

InitVerify ==
    /\ AppInit
    /\ fileContent = FileContent
    /\ response \in {Text(t) : t \in VerifyTexts} \cup VerifyResponses
    /\ generated = NoDoc
    /\ verified = NoDoc
    /\ translated = NoDoc

verify ==
    /\ verified = NoDoc
    /\ verified' = verifyCodeExample(response)
    /\ UNCHANGED <<appVars, fileContent, response, generated, translated>>

SpecVerify == InitVerify /\ [][verify]_vars

(***************************************************************************)
(* translateDocumentation taken alone, on stored documents (as generated,   *)
(* verified, or already translated) and on the texts the translator can    *)
(* return                                                                  *)
(***************************************************************************)
\* the document processFile stores for a text of the generator
StoredDoc(text) ==
    upsertGenerated(EmptyStore, File(PathA, "sha1"),
                    generateDocumentation(FileName, FileContent, Text(text)).doc)[PathA]

\* generator texts: two sections, no text, no fields, a section that is a
\* number, a section that is null
TranslateDocTexts ==
    { GoodDocText, <<>>, <<LB, RB>>,
      <<LB>> \o KV("summary", "x") \o <<CM, QT, "sections", QT, CL, LK, LB>>
          \o KV("title", "A") \o <<RB, CM, "1", RK, RB>>,
      <<LB>> \o KV("summary", "x") \o <<CM, QT, "sections", QT, CL, LK, "null", RK, RB>> }

TranslateTexts ==
    LET Sec(title, content) == <<LB>> \o title \o <<CM>> \o content \o <<RB>>
        Doc(secs) == <<LB>> \o KV("summary", "y")
                     \o <<CM, QT, "sections", QT, CL, LK>> \o secs \o <<RK, RB>>
        T == KV("title", "T")
        U == KV("content", "U")
        Empty == <<QT, "title", QT, CL, QT, QT>>
    IN  { <<>>, <<"x">>, <<"1">>, <<"null">>, <<LB, RB>>,
          Doc(<<>>), Doc(Sec(T, U)), Doc(Sec(Empty, U)),
          Doc(Sec(T, U) \o <<CM>> \o Sec(T, U)),
          Doc(Sec(T, U) \o <<CM>> \o Sec(Empty, U) \o <<CM>> \o Sec(T, U)),
          Doc(<<LB>> \o U \o <<RB>>),
          <<"~", "~", "~", "json", NL>> \o Doc(Sec(T, U)) \o <<NL, "~", "~", "~">>,
          <<LB>> \o KV("summary", "y") \o <<CM, QT, "sections", QT, CL, LK, LB>> \o T,
          <<LB>> \o KV("sections", "x") \o <<RB>> }

InitTranslate ==
    /\ AppInit
    /\ fileContent = FileContent
    /\ response \in {Text(t) : t \in TranslateTexts} \cup TranslateResponses
    /\ generated = NoDoc
    /\ verified = NoDoc
    /\ \E text \in TranslateDocTexts, language \in Languages, targetLanguage \in Languages,
          verification \in {Verification("IDLE", Str(<<>>), Undef),
                            Verification("FAILED", Str(<<"x">>), Str(<<"d">>))} :
          translated = [doc |-> [StoredDoc(text) EXCEPT !.language = Str(<<language>>),
                                                        !.verification = verification],
                        lang |-> targetLanguage, out |-> NoDoc]

\* the promise of translateDocumentation is rejected
Rejected == [rejected |-> TRUE]

\* out is the document returned, or Rejected
translate ==
    /\ translated.out = NoDoc
    /\ translated' =
          [translated EXCEPT
              !.out = IF translateThrows(translated.doc, translated.lang)
                      THEN Rejected
                      ELSE translateDocumentation(translated.doc, translated.lang, response)]
    /\ UNCHANGED <<appVars, fileContent, response, generated, verified>>

SpecTranslate == InitTranslate /\ [][translate]_vars

(***************************************************************************)
(* Properties                                                              *)
(***************************************************************************)
\* the paths of the files of the tree
TreePaths == {f.path : f \in UNION Trees}

\* the fingerprint the tree gives for a path
ShaOf(path) == (CHOOSE f \in UNION Trees : f.path = path).sha

\* the overlays of a path: the keys handleTranslate builds for it
OverlayKeys(path) == {Key(path, lang) : lang \in Languages}

\* C1: whatever text the model returned, the Document that generateDocumentation
\* returns has a summary that is neither undefined nor null and has an array
\* of sections.
C1_SummaryPresent ==
    generated # NoDoc =>
        /\ generated.doc.summary.t \notin {"undefined", "null"}
        /\ generated.doc.sections.t = "arr"

\* C2: right after handleApplyFix on path p with the code c, translationCache
\* holds no overlay of p, every section of docState[p] that had or has a code
\* example has c as its code example, and the verification of docState[p] is
\* IDLE with the log "Fix applied. Ready for re-verification." and no fixedCode.
C2_ApplyFixResets ==
    lastOp.op = "handleApplyFix" =>
        LET p == lastOp.path
            old == SectionsOf(lastOp.before.docState[p])
            new == SectionsOf(docState[p])
        IN  /\ \A key \in OverlayKeys(p) : ~Has(translationCache, key)
            /\ Len(new) = Len(old)
            /\ \A i \in DOMAIN new :
                  (\/ Truthy(Prop(old[i], "codeExample"))
                   \/ Truthy(Prop(new[i], "codeExample")))
                  => Prop(new[i], "codeExample") = lastOp.arg
            /\ docState[p].verification =
                  Verification("IDLE", Str(<<"Fix applied. Ready for re-verification.">>),
                               Undef)

\* a fix was applied to a document that had an overlay, and its code example
\* is now the fixed code
C2_Witness ==
    /\ lastOp.op = "handleApplyFix"
    /\ \E key \in OverlayKeys(lastOp.path) : Has(lastOp.before.translationCache, key)
    /\ \E i \in DOMAIN SectionsOf(docState[lastOp.path]) :
          /\ Prop(SectionsOf(docState[lastOp.path])[i], "codeExample") = Str(<<"d">>)
          /\ Prop(SectionsOf(lastOp.before.docState[lastOp.path])[i], "codeExample")
                = Str(<<"c">>)

\* C3: right after a verification of path p completes with the record r,
\* docState[p] and every overlay of p that translationCache held before have
\* r as their verification, and such an overlay differs from what it was in
\* nothing else (summary, sections, language).
C3_VerificationRefreshed ==
    lastOp.op = "handleVerifyResult" =>
        LET p == lastOp.path
            r == verifyCodeExample(lastOp.arg)
        IN  /\ Has(docState, p) /\ docState[p].verification = r
            /\ \A key \in OverlayKeys(p) :
                  Has(lastOp.before.translationCache, key) =>
                     /\ Has(translationCache, key)
                     /\ translationCache[key].verification = r
                     /\ translationCache[key] =
                           [lastOp.before.translationCache[key] EXCEPT !.verification = r]

\* a verification completed for a path that had a translated overlay whose
\* verification was another record
C3_Witness ==
    /\ lastOp.op = "handleVerifyResult"
    /\ \E key \in OverlayKeys(lastOp.path) :
          /\ Has(lastOp.before.translationCache, key)
          /\ lastOp.before.translationCache[key].summary = Str(<<"y">>)
          /\ lastOp.before.translationCache[key].verification
                # verifyCodeExample(lastOp.arg)
          /\ translationCache[key].summary = Str(<<"y">>)

\* C4: isStale(p, fp) is true exactly when docState has no entry for p or the
\* entry's sourceSha is not fp; right after the document generated for a file
\* of fingerprint fp1 is stored, isStale is false for fp1 and true for every
\* other fingerprint.
C4_StaleExactly ==
    /\ \A p \in TreePaths, fp \in Shas :
          isStale(docState, p, fp)
             <=> (~Has(docState, p) \/ docState[p].sourceSha # Str(<<fp>>))
    /\ lastOp.op = "processFileGenerated" =>
          \A fp \in Shas :
             isStale(docState, lastOp.path, fp) <=> fp # ShaOf(lastOp.path)

\* a generated document was stored: it is fresh for the fingerprint of its
\* file and stale for another one
C4_Witness ==
    /\ lastOp.op = "processFileGenerated"
    /\ Has(docState, lastOp.path)
    /\ ~isStale(docState, lastOp.path, ShaOf(lastOp.path))
    /\ \E fp \in Shas : isStale(docState, lastOp.path, fp)

\* C5: a handleFileSelect on a file whose document has already been generated
\* and stored (the fingerprint of a file does not change) starts no request
\* and leaves docState and translationCache as they were.
C5_SecondSelectIsHit ==
    [][\A file \in allFiles :
          (handleFileSelect(file) /\ Has(docState, file.path))
          => UNCHANGED <<docState, translationCache, inflight, started>>]_vars

\* a file was selected again after its only generation had completed, and
\* nothing else was ever requested
C5_Witness ==
    /\ lastOp.op = "handleFileSelect"
    /\ Has(lastOp.before.docState, lastOp.path)
    /\ docState[lastOp.path].summary = Str(<<"x">>)
    /\ started = 1 /\ inflight = EmptyBag

\* C6: every overlay stored for (p, lang) has as many sections as docState[p]
\* and the same code example in each of them.
C6_OverlayCodeMirrors ==
    \A p \in TreePaths : \A key \in OverlayKeys(p) :
        Has(translationCache, key) =>
            /\ Has(docState, p)
            /\ Len(SectionsOf(translationCache[key])) = Len(SectionsOf(docState[p]))
            /\ \A i \in DOMAIN SectionsOf(translationCache[key]) :
                  Prop(SectionsOf(translationCache[key])[i], "codeExample")
                     = Prop(SectionsOf(docState[p])[i], "codeExample")

\* C7: every overlay stored for path p has the verification and the sourceSha
\* of docState[p].
C7_OverlayInSync ==
    \A p \in TreePaths : \A key \in OverlayKeys(p) :
        Has(translationCache, key) =>
            /\ Has(docState, p)
            /\ translationCache[key].verification = docState[p].verification
            /\ translationCache[key].sourceSha = docState[p].sourceSha

\* C8: right after processFile got a failure of the generator for path p (the
\* call threw, or the model returned no text), an error is reported, docState
\* is what it was, and p is still stale for the fingerprint of its file.
C8_GeneratorFailureReported ==
    (lastOp.op = "processFileGenerated" /\ (lastOp.arg.threw \/ lastOp.arg.text = <<>>))
    => /\ errorMsg # NoError
       /\ docState = lastOp.before.docState
       /\ isStale(docState, lastOp.path, ShaOf(lastOp.path))

\* C9: right after fetchFileContent failed in processFile or in handleVerify,
\* errorMsg holds the message of the failure, and docState and
\* translationCache are what they were; the steps of the two handlers before
\* the fetch leave the two caches as they were as well.
C9_FetchFailureLeavesCaches ==
    /\ lastOp.op \in {"handleFileSelect", "handleVerify", "processFileFetchFailed",
                      "handleVerifyFetchFailed"}
       => /\ docState = lastOp.before.docState
          /\ translationCache = lastOp.before.translationCache
    /\ lastOp.op = "processFileFetchFailed"
       => errorMsg \in {"Failed to generate docs: " \o m : m \in FetchErrors}
    /\ lastOp.op = "handleVerifyFetchFailed"
       => errorMsg \in {"Verification failed: " \o m : m \in FetchErrors}

\* the fetch of a verification failed for a path that has a document and an
\* overlay, and no error was shown before
C9_Witness ==
    /\ lastOp.op = "handleVerifyFetchFailed"
    /\ lastOp.before.errorMsg = NoError /\ errorMsg # NoError
    /\ Has(docState, lastOp.path)
    /\ \E key \in OverlayKeys(lastOp.path) : Has(translationCache, key)

\* C10: right after handleVerify got an oracle output that is not JSON (or a
\* failure of the oracle call) for path p, an error is reported and the
\* verification of docState[p] and of every overlay of p is what it was.
C10_OracleFailureReported ==
    (/\ lastOp.op = "handleVerifyResult"
     /\ \/ lastOp.arg.threw
        \/ ~JsonParse(cleanJson(lastOp.arg.text)).ok)
    => /\ errorMsg # NoError
       /\ Has(lastOp.before.docState, lastOp.path)
       /\ docState[lastOp.path].verification
             = lastOp.before.docState[lastOp.path].verification
       /\ \A key \in OverlayKeys(lastOp.path) :
             Has(lastOp.before.translationCache, key) =>
                translationCache[key].verification
                   = lastOp.before.translationCache[key].verification

\* C11: the record verifyCodeExample returns has status SUCCESS only when the
\* oracle call returned a text whose JSON (the text from its first brace to
\* its last, or the trimmed text) parses to a value whose status is exactly
\* "SUCCESS"; a thrown call, no text, a text that does not parse and any other
\* status give FAILED.
C11_SuccessOnlyWhenToldSo ==
    verified # NoDoc =>
        /\ verified.status \in {"SUCCESS", "FAILED"}
        /\ verified.status = "SUCCESS" <=>
              /\ ~response.threw
              /\ response.text # <<>>
              /\ JsonParse(cleanJson(response.text)).ok
              /\ Prop(JsonParse(cleanJson(response.text)).v, "status")
                    = Str(<<"SUCCESS">>)

\* the oracle's text said SUCCESS, wrapped in other text, and the record is
\* a success with the oracle's logs
C11_Witness ==
    /\ verified # NoDoc
    /\ verified.status = "SUCCESS"
    /\ verified.logs = Str(<<"x">>)
    /\ Head(response.text) = "x"

\* C12: no entry of docState lacks its summary, its sections or its sourceSha;
\* a verification that completes for a path without an entry creates none.
C12_NoPartialEntry ==
    \A p \in DOMAIN docState :
        /\ docState[p].summary # Undef
        /\ docState[p].sections # Undef
        /\ docState[p].sourceSha # Undef

\* C13: right after a generation for path p completes, docState[p] is the
\* document generateDocumentation returned with the sha of the file as
\* sourceSha and the verification {IDLE, ''}, whatever entry p had before;
\* the entries of the other paths are what they were.
C13_GenerationReplaces ==
    lastOp.op = "processFileGenerated" =>
        LET p == lastOp.path
            doc == generateDocumentation(p, FileContent, lastOp.arg).doc
        IN  /\ Has(docState, p)
            /\ docState[p] =
                  [filePath |-> doc.filePath, summary |-> doc.summary,
                   sections |-> doc.sections, language |-> doc.language,
                   sourceSha |-> Str(<<ShaOf(p)>>),
                   verification |-> [status |-> "IDLE", logs |-> Str(<<>>),
                                     fixedCode |-> Undef]]
            /\ \A q \in DOMAIN docState \ {p} :
                  Has(lastOp.before.docState, q) /\ docState[q] = lastOp.before.docState[q]

\* a generation completed for a path whose entry had a verdict, and the entry
\* is a new document with an idle verification
C13_Witness ==
    /\ lastOp.op = "processFileGenerated"
    /\ Has(lastOp.before.docState, lastOp.path)
    /\ lastOp.before.docState[lastOp.path].verification.status = "FAILED"
    /\ docState[lastOp.path].verification.status = "IDLE"
    /\ docState[lastOp.path].summary = Str(<<"x">>)

\* C14: right after the document generated for path p is stored,
\* translationCache holds no overlay of p, in any language.
C14_GenerationEvictsOverlays ==
    lastOp.op = "processFileGenerated" =>
        \A key \in DOMAIN translationCache : key \notin OverlayKeys(lastOp.path)

\* a generation completed for a path that had an overlay
C14_Witness ==
    /\ lastOp.op = "processFileGenerated"
    /\ \E key \in OverlayKeys(lastOp.path) : Has(lastOp.before.translationCache, key)
    /\ Has(docState, lastOp.path)

C16_ValidJsonIsStrict ==
    LET text == response.text
        json == SubSeq(text, FirstIndexOf(text, LB), LastIndexOf(text, RB))
        v == JsonParse(json).v
    IN  (/\ generated # NoDoc /\ ~response.threw /\ ~Minified(fileContent)
         /\ FirstIndexOf(text, LB) > 0
         /\ JsonParse(json).ok
         /\ v.t = "obj"
         /\ Prop(v, "summary").t = "str"
         /\ Prop(v, "sections").t = "arr"
         /\ \A i \in DOMAIN Prop(v, "sections").kids :
               /\ Prop(v, "sections").kids[i].t = "obj"
               /\ Prop(Prop(v, "sections").kids[i], "title").t = "str"
               /\ Prop(Prop(v, "sections").kids[i], "content").t = "str")
        => /\ generated.tier = "Strict"
           /\ generated.doc.summary = Prop(v, "summary")
           /\ generated.doc.sections = Prop(v, "sections")

\* a document of two sections wrapped in a code fence was given, and the
\* document has its summary and its two sections
C16_Witness ==
    /\ generated # NoDoc
    /\ generated.tier = "Strict"
    /\ Head(response.text) = "~"
    /\ generated.doc.summary = Str(<<"x">>)
    /\ Len(SectionsOf(generated.doc)) = 2
    /\ Prop(SectionsOf(generated.doc)[1], "codeExample") = Str(<<"c">>)

\* C17: when the text is given to resilientParse (its JSON neither parses
\* nor repairs to a truthy value) and every marker "title": " in it is
\* followed, before the next marker, by the closing quote of the title and
\* by "content": "C", the document comes from resilientParse: filePath is the
\* file name, there is one section per marker, in order, titled with the text
\* up to the closing quote and with content C, and the summary is
\* "Analysis completed" when the text has no "summary": "..." in it.
C17_ScavengedSections ==
    LET text == response.text
        markers == {i \in DOMAIN text : KeyEnd(text, i, "title") # 0}
        NextMarker(i) == IF \E j \in markers : j > i
                         THEN CHOOSE j \in markers :
                                 j > i /\ \A k \in markers : k > i => j <= k
                         ELSE Len(text) + 1
        Chunk(i) == SubSeq(text, KeyEnd(text, i, "title"), NextMarker(i) - 1)
        Nth(i) == Cardinality({j \in markers : j <= i})
        sections == SectionsOf(generated.doc)
    IN  (/\ generated # NoDoc /\ ~response.threw /\ ~Minified(fileContent)
         /\ text # <<>>
         /\ ~Truthy(repairAndParseJson(cleanJson(text)))
         /\ markers # {}
         /\ \A i \in markers :
               /\ FirstIndexOf(Chunk(i), QT) # 0
               /\ KeyValue(Chunk(i), "content").ok)
        => /\ generated.tier = "Recovered"
           /\ generated.doc.filePath = Str(FileName)
           /\ Len(sections) = Cardinality(markers)
           /\ \A i \in markers :
                 /\ Prop(sections[Nth(i)], "title")
                       = Str(SubSeq(Chunk(i), 1, FirstIndexOf(Chunk(i), QT) - 1))
                 /\ Prop(sections[Nth(i)], "content")
                       = Str(KeyValue(Chunk(i), "content").body)
           /\ ~KeyValue(text, "summary").ok
                 => generated.doc.summary = Str(<<"Analysis completed">>)

\* garbage "title": "Setup" garbage "content": "Install deps" garbage was
\* given: one section, Setup / Install deps, and the placeholder summary
C17_Witness ==
    /\ generated # NoDoc
    /\ response = Text(ScavengeText)
    /\ generated.tier = "Recovered"
    /\ generated.doc.summary = Str(<<"Analysis completed">>)
    /\ Len(SectionsOf(generated.doc)) = 1
    /\ Prop(SectionsOf(generated.doc)[1], "title") = Str(<<"Setup">>)
    /\ Prop(SectionsOf(generated.doc)[1], "content") = Str(<<"Install deps">>)

\* C18: for a text that is a JSON object cut inside a string literal (closing
\* the string and the open brackets and braces gives valid JSON), a document
\* is returned, from the first branch when the repaired text parses and
\* otherwise from resilientParse or fallbackRaw, and its summary is a
\* non-empty string.
C18_TruncatedStringHasSummary ==
    LET text == response.text
        closers == UNION {[1..n -> {RK, RB}] : n \in 1..3}
    IN  (/\ generated # NoDoc /\ ~response.threw /\ ~Minified(fileContent)
         /\ text # <<>> /\ Head(text) = LB
         /\ Count(text, QT) % 2 = 1
         /\ \E c \in closers : JsonParse(text \o <<QT>> \o c).ok)
        => /\ generated.tier \in {"Strict", "Recovered", "RawFallback"}
           /\ JsonParse(Repaired(cleanJson(text))).ok => generated.tier = "Strict"
           /\ generated.doc.summary.t = "str"
           /\ generated.doc.summary.s # <<>>

C20_FirstTierWithSections ==
    LET text == response.text
        parsed == repairAndParseJson(cleanJson(text))
        strictSections == IF Truthy(parsed) /\ Prop(parsed, "sections").t = "arr"
                          THEN Len(Prop(parsed, "sections").kids) ELSE 0
    IN  (generated # NoDoc /\ ~response.threw /\ text # <<>> /\ ~Minified(fileContent))
        => /\ generated.tier =
                 (IF strictSections >= 1 THEN "Strict"
                  ELSE IF resilientParse(text, FileName) # NoDoc THEN "Recovered"
                  ELSE "RawFallback")
           /\ Len(SectionsOf(generated.doc)) >= 1

\* C21: every section of the document generateDocumentation returns has a
\* title and a content that are neither undefined nor null, whatever the
\* shape of the JSON the model returned.
C21_SectionsHaveTitleAndContent ==
    generated # NoDoc =>
        \A i \in DOMAIN SectionsOf(generated.doc) :
            /\ Prop(SectionsOf(generated.doc)[i], "title").t \notin {"undefined", "null"}
            /\ Prop(SectionsOf(generated.doc)[i], "content").t \notin {"undefined", "null"}

\* C22: right after a translation of path p into lang completes with a
\* failure of the translator (the call threw, it returned no text, or a text
\* whose JSON neither parses nor repairs), errorMsg is what it was and the
\* document stored for (p, lang) has the summary and the sections, code
\* examples included, of docState[p].
C22_FailedTranslationShowsBase ==
    (/\ lastOp.op = "handleTranslateResult"
     /\ \/ lastOp.arg.threw \/ lastOp.arg.text = <<>>
        \/ ~Truthy(repairAndParseJson(cleanJson(lastOp.arg.text))))
    => /\ errorMsg = lastOp.before.errorMsg
       /\ \E key \in OverlayKeys(lastOp.path) :
             /\ ~Has(lastOp.before.translationCache, key)
             /\ Has(translationCache, key)
             /\ Has(docState, lastOp.path)
             /\ translationCache[key].summary = docState[lastOp.path].summary
             /\ translationCache[key].sections = docState[lastOp.path].sections

\* C23: at any time at most one generation is in flight per path, at most one
\* verification per path and at most one translation per (path, language).
C23_OneRequestPerKey ==
    /\ \A r \in Pending : CopiesIn(r, inflight) = 1
    /\ \A r1, r2 \in {r \in Pending : r.kind # "repo"} :
          (/\ r1.kind = r2.kind
           /\ r1.file.path = r2.file.path
           /\ r1.kind = "translate" => r1.lang = r2.lang)
          => r1 = r2

\* C24: a generation that completes on a path whose entry holds an applied fix
\* that has not been verified since was requested before the fix (a click on
\* a stored, fresh path starts no generation), so it does not overwrite the
\* entry: the sections of the entry stay the ones the fix produced.
C24_FixSurvivesStaleGeneration ==
    (/\ lastOp.op = "processFileGenerated"
     /\ Has(lastOp.before.docState, lastOp.path)
     /\ lastOp.before.docState[lastOp.path].verification
            = Verification("IDLE", Str(<<"Fix applied. Ready for re-verification.">>), Undef))
    => docState[lastOp.path].sections = lastOp.before.docState[lastOp.path].sections

\* C25: a step in which a generation, verification or translation requested
\* for path q completes while another path is selected leaves the selected
\* file and the view language as they were, and changes nothing in the caches
\* but what is stored under q: every docState entry of another path and every
\* overlay that is not an overlay of q is as it was.
C25_CompletionTouchesOwnKeyOnly ==
    [][(/\ lastOp'.op \in {"processFileGenerated", "handleVerifyResult",
                           "handleTranslateResult"}
        /\ selectedFile # NoFile
        /\ selectedFile.path # lastOp'.path)
       => /\ selectedFile' = selectedFile
          /\ viewLanguage' = viewLanguage
          /\ \A p \in TreePaths \ {lastOp'.path} :
                /\ Lookup(docState', p) = Lookup(docState, p)
                /\ \A key \in OverlayKeys(p) :
                      Lookup(translationCache', key) = Lookup(translationCache, key)]_vars

\* C26: right after handleApplyFix on path p, docState[p] has the sections of
\* before in the same number and order, each with the title and the content
\* it had, a section that had no (or an empty) code example is as it was, and
\* the summary, filePath, language and sourceSha of the entry are as they
\* were; the entries of the other paths are unchanged.
C26_ApplyFixFrame ==
    lastOp.op = "handleApplyFix" =>
        LET p == lastOp.path
            was == lastOp.before.docState[p]
            old == SectionsOf(was)
            new == SectionsOf(docState[p])
        IN  /\ Len(new) = Len(old)
            /\ \A i \in DOMAIN new :
                  /\ Prop(new[i], "title") = Prop(old[i], "title")
                  /\ Prop(new[i], "content") = Prop(old[i], "content")
                  /\ ~Truthy(Prop(old[i], "codeExample")) => new[i] = old[i]
            /\ docState[p].summary = was.summary
            /\ docState[p].filePath = was.filePath
            /\ docState[p].language = was.language
            /\ docState[p].sourceSha = was.sourceSha
            /\ \A q \in TreePaths \ {p} :
                  Lookup(docState, q) = Lookup(lastOp.before.docState, q)

\* a fix was applied to a document with three sections: the first had no
\* code example and has none, the second and the third have the fixed code
C26_Witness ==
    /\ lastOp.op = "handleApplyFix"
    /\ Len(SectionsOf(docState[lastOp.path])) = 3
    /\ Prop(SectionsOf(lastOp.before.docState[lastOp.path])[1], "codeExample") = Undef
    /\ Prop(SectionsOf(docState[lastOp.path])[1], "codeExample") = Undef
    /\ Prop(SectionsOf(lastOp.before.docState[lastOp.path])[2], "codeExample") # lastOp.arg
    /\ Prop(SectionsOf(docState[lastOp.path])[2], "codeExample") = lastOp.arg
    /\ Prop(SectionsOf(docState[lastOp.path])[3], "codeExample") = lastOp.arg

\* C27: right after a cache mutation for path p (a generation stored, a
\* verification set and refreshed, a fix applied, each with its invalidation
\* of the overlays of p), every docState entry and every overlay of another
\* path q is as it was, also when q begins with p or contains ':'.
C27_OtherPathsUntouched ==
    lastOp.op \in {"processFileGenerated", "handleVerifyResult", "handleApplyFix"} =>
        \A q \in TreePaths \ {lastOp.path} :
            /\ Lookup(docState, q) = Lookup(lastOp.before.docState, q)
            /\ \A key \in OverlayKeys(q) :
                  Lookup(translationCache, key) = Lookup(lastOp.before.translationCache, key)

\* C28: when some "{" of the text comes before some "}", cleanJson gives the
\* text from its first "{" to its last "}" inclusive; otherwise it gives the
\* text without its leading and trailing whitespace.
C28_Extraction ==
    (generated # NoDoc /\ ~response.threw) =>
        LET text == response.text
            out == cleanJson(text)
            opens == {i \in DOMAIN text : text[i] = LB}
            closes == {j \in DOMAIN text : text[j] = RB}
        IN  IF \E i \in opens, j \in closes : i < j
            THEN \E i \in opens, j \in closes :
                    /\ \A k \in opens : i <= k
                    /\ \A k \in closes : k <= j
                    /\ out = SubSeq(text, i, j)
            ELSE \E a \in 1..(Len(text) + 1), b \in 0..Len(text) :
                    /\ out = SubSeq(text, a, b)
                    /\ \A k \in 1..(a - 1) : text[k] \in Ws
                    /\ \A k \in (b + 1)..Len(text) : text[k] \in Ws
                    /\ out # <<>> => (out[1] \notin Ws /\ out[Len(out)] \notin Ws)

\* a document wrapped in prose was given: what cleanJson gives is shorter
\* than the text, starts with "{" and ends with "}", and the document is read
C28_Witness ==
    /\ generated # NoDoc /\ ~response.threw
    /\ Len(cleanJson(response.text)) < Len(response.text)
    /\ Head(response.text) = "x"
    /\ Head(cleanJson(response.text)) = LB
    /\ cleanJson(response.text)[Len(cleanJson(response.text))] = RB
    /\ generated.tier = "Strict"
    /\ Len(SectionsOf(generated.doc)) = 2

\* the text had only whitespace around a word or nothing else, and cleanJson
\* removed that whitespace
C28_TrimWitness ==
    /\ generated # NoDoc /\ ~response.threw
    /\ FirstIndexOf(response.text, LB) = 0
    /\ response.text # <<>>
    /\ cleanJson(response.text) = <<>>

\* C29: when JSON.parse rejects the extracted text, the repair appends one
\* closing double quote exactly when the number of unescaped double quotes of
\* the text (those not preceded by an odd number of backslashes) is odd.
C29_QuoteClosedIffOddUnescaped ==
    LET s == cleanJson(response.text)
        r == DropTrailingComma(Trim(s))
        BackslashesBefore(i) ==
            Cardinality({k \in 1..(i - 1) : \A j \in k..(i - 1) : r[j] = BS})
        unescaped == {i \in DOMAIN r : r[i] = QT /\ BackslashesBefore(i) % 2 = 0}
    IN  (/\ generated # NoDoc /\ ~response.threw /\ response.text # <<>>
         /\ ~Minified(fileContent)
         /\ ~JsonParse(s).ok)
        => /\ Repaired(s) = r \o CloseQuote(r) \o CloseBrackets(r) \o CloseBraces(r)
           /\ CloseQuote(r) = <<QT>> <=> Cardinality(unescaped) % 2 = 1

\* C30: when JSON.parse rejects the extracted text, the text parsed next is
\* the text (trimmed, without its trailing comma), then at most one double
\* quote, then as many "]" as it has more "[" than "]", then as many "}" as
\* it has more "{" than "}", none when the difference is not positive; that
\* text is parsed once, and the value is its value, or null when it is
\* rejected too.
C30_ClosersAppended ==
    LET s == cleanJson(response.text)
        r == DropTrailingComma(Trim(s))
        Missing(open, close) ==
            IF Count(r, open) > Count(r, close) THEN Count(r, open) - Count(r, close) ELSE 0
        closers == [i \in 1..Missing(LK, RK) |-> RK] \o [i \in 1..Missing(LB, RB) |-> RB]
    IN  (/\ generated # NoDoc /\ ~response.threw /\ response.text # <<>>
         /\ ~Minified(fileContent)
         /\ ~JsonParse(s).ok)
        => \E quote \in {<<>>, <<QT>>} :
              /\ Repaired(s) = r \o quote \o closers
              /\ repairAndParseJson(s) =
                    IF JsonParse(r \o quote \o closers).ok
                    THEN JsonParse(r \o quote \o closers).v
                    ELSE Null
              /\ generated.tier = "Strict" <=> Truthy(repairAndParseJson(s))

\* a text cut inside the array of sections was given: a "]" and then a "}"
\* were appended, and the document has the summary of the text
C30_Witness ==
    /\ generated # NoDoc /\ ~response.threw
    /\ ~JsonParse(cleanJson(response.text)).ok
    /\ Repaired(cleanJson(response.text)) = response.text \o <<RK, RB>>
    /\ generated.tier = "Strict"
    /\ generated.doc.summary = Str(<<"x">>)

\* C31: the document of the last branch has exactly one section, titled
\* "Analysis", with a placeholder code example; its content is the text
\* without its "{", '"', "}" and "summary:", trimmed: the whole of it when it
\* has at most 1000 characters, and otherwise its first 1000 characters
\* followed by "...", so the content never has more than 1003 characters.
C31_RawFallbackShape ==
    (generated # NoDoc /\ generated.tier = "RawFallback") =>
        LET secs == SectionsOf(generated.doc)
            content == Prop(secs[1], "content").s
            cleaned == Trim(ReplacePair(Without(response.text, {LB, QT, RB}),
                                        "summary", CL, <<>>))
            ellipsis == content # <<>> /\ content[Len(content)] = "..."
            body == IF ellipsis THEN SubSeq(content, 1, Len(content) - 1) ELSE content
        IN  /\ Len(secs) = 1
            /\ Prop(secs[1], "title") = Str(<<"Analysis">>)
            /\ Prop(secs[1], "codeExample").t = "str"
            /\ Truthy(Prop(secs[1], "codeExample"))
            /\ Prop(secs[1], "content").t = "str"
            /\ \A i \in DOMAIN content : content[i] \notin {LB, QT, RB}
            /\ ellipsis <=> StrLen(cleaned) > 1000
            /\ ~ellipsis => body = cleaned
            /\ ellipsis => StrLen(body) = 1000 /\ body = SliceChars(cleaned, 1000)
            /\ StrLen(content) <= 1003

\* a text of exactly 1000 characters was given and is the whole content
C31_Witness ==
    /\ generated # NoDoc /\ generated.tier = "RawFallback"
    /\ StrLen(response.text) = 1000
    /\ Prop(SectionsOf(generated.doc)[1], "content") = Str(response.text)

\* a text of 1001 characters once cleaned was given: the content is its first
\* 1000 characters and the ellipsis
C31_WitnessCut ==
    /\ generated # NoDoc /\ generated.tier = "RawFallback"
    /\ StrLen(response.text) > 1001
    /\ StrLen(Prop(SectionsOf(generated.doc)[1], "content").s) = 1003

\* C32: in every state, every overlay stored under the key of (p, lang) has
\* lang as its language; none stored under the key of another language than
\* the base one has the language "en".
C32_OverlayLanguageIsKey ==
    \A p \in TreePaths, lang \in Languages :
        Has(translationCache, Key(p, lang))
        => translationCache[Key(p, lang)].language = Str(<<lang>>)

\* C33: when handleRepoSubmit empties docState and translationCache for a new
\* repository, no generation, verification or translation is in flight (the
\* repository form is on screen only while no tree is loaded), so whatever is
\* written into the caches later comes from a request started after that;
\* and in every state the path of every overlay has an entry in docState.
C33_NothingSurvivesReset ==
    /\ (lastOp.op = "handleRepoSubmit" /\ status = "FETCHING")
       => /\ docState = EmptyStore /\ translationCache = EmptyStore
          /\ \A r \in Pending : r.kind = "repo"
    /\ \A key \in DOMAIN translationCache :
          \E p \in DOMAIN docState : key \in OverlayKeys(p)

\* after a repository was submitted and its tree loaded, a document was
\* generated and translated: the caches hold an entry and its overlay
C33_Witness ==
    /\ repoInfo # NoRepo
    /\ lastOp.op = "handleTranslateResult"
    /\ Has(docState, lastOp.path)
    /\ Has(translationCache, Key(lastOp.path, "es"))
    /\ ~Has(lastOp.before.translationCache, Key(lastOp.path, "es"))

\* C34: a step that completes a verification requested on a code example that
\* a fix has since replaced (the entry of the path holds the record of an
\* applied fix and its first code example is no longer the one the request
\* was made for) does not store its result: the verification of the entry
\* stays the IDLE record of the fix.
C34_StaleVerificationDropped ==
    [][\A r \in Pending, resp \in VerifyResponses :
          (/\ handleVerifyResult(r, resp)
           /\ Has(docState, r.file.path)
           /\ docState[r.file.path].verification
                = Verification("IDLE", Str(<<"Fix applied. Ready for re-verification.">>),
                               Undef)
           /\ FirstExample(docState[r.file.path]) # r.example)
          => docState'[r.file.path].verification
                = docState[r.file.path].verification]_vars

\* C35: while a repository fetch, a generation, a verification or a
\* translation is in flight, status is one of FETCHING, ANALYZING, VERIFYING,
\* TRANSLATING; so when status is IDLE nothing is in flight.
C35_BusyWhilePending ==
    inflight # EmptyBag => status \in {"FETCHING", "ANALYZING", "VERIFYING", "TRANSLATING"}

\* C36: when every external call eventually returns or fails, whenever a
\* request is in flight there comes a state with nothing in flight and the
\* status IDLE or ERROR; and in every state with nothing in flight the status
\* is IDLE or ERROR, never FETCHING, ANALYZING, VERIFYING or TRANSLATING.
C36_RequestsSettle ==
    /\ [](inflight = EmptyBag => status \in {"IDLE", "ERROR"})
    /\ (inflight # EmptyBag) ~> (inflight = EmptyBag /\ status \in {"IDLE", "ERROR"})

\* the last of three file requests has just completed: nothing is in flight
\* and the status is IDLE
C36_Witness ==
    /\ started = MaxStarted /\ inflight = EmptyBag
    /\ lastOp.op \in {"processFileGenerated", "handleVerifyResult", "handleTranslateResult"}
    /\ status = "IDLE"

\* C37: when the translator's text parses (or repairs) to a truthy value and
\* the document is not yet in the language asked for, the document returned
\* has as many sections as the one given, each with the code example it had,
\* the filePath, sourceSha and verification of the one given, the language
\* asked for, and, for the title and the content of each section, the value
\* the translator gave at the same index when that value is truthy and the
\* value of the document given otherwise, however many sections the
\* translator returned.  When the document is already in the language asked
\* for, it is returned as it is, whatever the translator would answer.
C37_TranslationMerges ==
    (translated # NoDoc /\ translated.out # NoDoc) =>
        LET doc == translated.doc
            out == translated.out
            parsed == repairAndParseJson(cleanJson(response.text))
            given == Prop(parsed, "sections")
            In(v, i) == IF v.t = "arr" /\ i \in DOMAIN v.kids THEN v.kids[i] ELSE Undef
        IN  /\ doc.language = Str(<<translated.lang>>) => out = doc
            /\ (/\ doc.language # Str(<<translated.lang>>)
                /\ out # Rejected
                /\ ~response.threw /\ response.text # <<>> /\ Truthy(parsed))
               => /\ Len(SectionsOf(out)) = Len(SectionsOf(doc))
                  /\ out.filePath = doc.filePath
                  /\ out.sourceSha = doc.sourceSha
                  /\ out.verification = doc.verification
                  /\ out.language = Str(<<translated.lang>>)
                  /\ \A i \in DOMAIN SectionsOf(doc) :
                        /\ Prop(SectionsOf(out)[i], "codeExample")
                              = Prop(SectionsOf(doc)[i], "codeExample")
                        /\ \A k \in {"title", "content"} :
                              Prop(SectionsOf(out)[i], k) =
                                 IF Truthy(Prop(In(given, i), k))
                                 THEN Prop(In(given, i), k)
                                 ELSE Prop(SectionsOf(doc)[i], k)

\* the translator returned three sections, the second with an empty title,
\* for a verified document of two sections: the first section has the
\* translated title, the second the title it had, and both the translated
\* content
C37_Witness ==
    /\ translated # NoDoc /\ translated.out \notin {NoDoc, Rejected}
    /\ translated.out.language = Str(<<"es">>)
    /\ translated.doc.verification.status = "FAILED"
    /\ Len(SectionsOf(translated.out)) = 2
    /\ Len(Prop(JsonParse(response.text).v, "sections").kids) = 3
    /\ Prop(SectionsOf(translated.out)[1], "title") = Str(<<"T">>)
    /\ Prop(SectionsOf(translated.out)[2], "title") = Str(<<"A">>)
    /\ Prop(SectionsOf(translated.out)[2], "content") = Str(<<"U">>)
    /\ Prop(SectionsOf(translated.out)[1], "codeExample") = Str(<<"c">>)

\* C38: a step of onTranslateRequest for the language lang on the selected
\* path p starts a translator call only when lang is not "en", docState has
\* an entry for p and translationCache has none for (p, lang); in every other
\* case it starts no request and leaves docState, translationCache and status
\* as they were, so a language whose overlay is cached is not translated
\* again.
C38_TranslatesOnlyWhenMissing ==
    [][\A lang \in Languages :
          onTranslateRequest(lang) =>
             LET missing == /\ lang # "en"
                            /\ selectedFile # NoFile
                            /\ Has(docState, selectedFile.path)
                            /\ ~Has(translationCache, Key(selectedFile.path, lang))
             IN  /\ inflight' # inflight => missing
                 /\ ~missing => UNCHANGED <<docState, translationCache, status,
                                            inflight, started>>]_vars

\* the language es was asked for again while its overlay was cached: no
\* request was started
C38_Witness ==
    /\ lastOp.op = "onTranslateRequest"
    /\ lastOp.arg = Str(<<"es">>)
    /\ Has(lastOp.before.translationCache, Key(lastOp.path, "es"))
    /\ inflight = EmptyBag /\ started < MaxStarted
    /\ status = "IDLE"

\* C39: a step that starts a verification (a new request waiting for the
\* file content) is taken with a file selected and a document displayed for
\* it that has a section with a non-empty code example; the request is for
\* the selected file and for the code example of the first such section, in
\* the order of the sections; the step changes neither docState nor
\* translationCache.  So without a selected file, a document or a code
\* example no content fetch and no oracle call is started.
C39_VerifiesFirstExample ==
    [][\A r \in BagToSet(inflight') :
          (/\ r.kind = "verify" /\ r.pc = "fetch"
           /\ CopiesIn(r, inflight') > CopiesIn(r, inflight))
          => /\ selectedFile # NoFile
             /\ getCurrentDoc # NoDoc
             /\ LET secs == SectionsOf(getCurrentDoc)
                    with == {i \in DOMAIN secs : Truthy(Prop(secs[i], "codeExample"))}
                IN  /\ with # {}
                    /\ \E i \in with :
                          /\ \A j \in with : i <= j
                          /\ r.example = Prop(secs[i], "codeExample")
             /\ r.file = selectedFile
             /\ status' = "VERIFYING"
             /\ UNCHANGED <<docState, translationCache>>]_vars

\* a verification was started on a document whose first section has no code
\* example and whose second and third have different ones: the request is for
\* the code example of the second section
C39_Witness ==
    /\ lastOp.op = "handleVerify"
    /\ status = "VERIFYING"
    /\ Has(docState, lastOp.path)
    /\ Len(SectionsOf(docState[lastOp.path])) = 3
    /\ Prop(SectionsOf(docState[lastOp.path])[1], "codeExample") = Undef
    /\ Prop(SectionsOf(docState[lastOp.path])[3], "codeExample") = Str(<<"c">>)
    /\ \E r \in Pending :
          /\ r.kind = "verify" /\ r.pc = "fetch"
          /\ r.example = Str(<<"e">>)
          /\ r.example = Prop(SectionsOf(docState[lastOp.path])[2], "codeExample")

====
